---- MODULE Spec2Model ----
(***************************************************************************)
(* Model of the hpm-probe firmware: the DMA-fed UART ring buffer           *)
(* (hpm-probe-bsp/src/uart.rs, dma.rs) and the USB transport dispatcher    *)
(* (firmware/src/usb/mod.rs, usb/dap_v2.rs).                               *)
(***************************************************************************)
EXTENDS Integers, Sequences, FiniteSets, TLC

VARIABLES
    buffer,        \* Uart.buffer: [u8; 256], a sequence; index i of the code is i+1 here
    last_idx,      \* Uart.last_idx
    fifoe,         \* UART FCR.FIFOE bit
    ch6,           \* DMA channel 6 registers: ENABLE, TRANSIZE, DSTADDR
    rx,            \* the destination slice of the read() in progress / last finished
    pc,            \* position of the processor inside Uart::read
    plan,          \* locals of Uart::read: dma_idx, n1, n2, new_last_idx
    call,          \* the last call of the Uart API: operation, arguments, state on entry
    ret,           \* the value the last call returned
    written,       \* history: number of bytes the DMA engine wrote since it was armed
    returned,      \* history: concatenation of the bytes read() returned since then
    sync,          \* history: both cursors were equal when the DMA transfer was armed
    lapped,        \* history: the unread span reached a full revolution
    usb_state,     \* USB.state: "Uninitialized", "Initializing" or "Initialized"
    halted,        \* the firmware panicked: the panic handler loops for ever
    dev_state,     \* device.state() of the USB device stack
    device_state,  \* InitializedUSB.device_state, the state seen at the last event
    read_ep,       \* dap_v2.read_ep: the command packets received and not yet read
    serial_rx,     \* serial: the serial packets received and not yet read
    usb_ret,       \* the Option<Request> the last USB::interrupt returned
    icall,         \* the last USB::interrupt call from outside App: argument, poll
                   \* result, what it did
    trace_busy,    \* dap_v2.trace_busy
    write_ep,      \* dap_v2.write_ep: the reply packet handed to it and not yet sent
    trace_ep,      \* dap_v2.trace_ep: the trace packet handed to it and not yet sent
    hid_ep,        \* dap_v1's report-in endpoint: the report handed to it and not yet sent
    ucall,         \* the last call of another USB operation: what it was given and did
    hid_rx,        \* dap_v1's report-out endpoint: the reports received and not read
    resp_buf,      \* App.resp_buf: [u8; 512]
    pcall,         \* the last App::poll or process_request: what it obtained and did
    dfu,           \* DfuRuntime: the interface it was allocated
    dfu_xfer,      \* the last control transfer offered to DfuRuntime and its answer
    chctrl,        \* DMA CHCTRL_CHn_CTRL of channels 0..7, the ENABLE bit apart
    chsrc,         \* DMA CHCTRL_CHn_SRCADDR of channels 0..7
    chx,           \* DMA channels other than 6: ENABLE, TRANSIZE, DSTADDR
    muxcfg,        \* DMAMUX MUXCFG_HDMA_MUXn of channels 0..7: ENABLE, SOURCE
    dcall,         \* the calls of DMA::setup: how many, and the state the first found
    base_clock,    \* Spi.base_clock
    prescaler,     \* the last Spi::calculate_prescaler: argument and result
    clocking,      \* the clock tree, base_clock and the TIMING, TRANSFMT and CTRL
                   \* registers of Spi<1> and Spi<2>, the last call that set them
    tc,            \* DMA INTSTATUS.TC: the channels whose transfer-complete bit is set
    dop,           \* the last stream operation: caller, name, channels accessed, result
    uart0,         \* the Uart<0> instance main creates: last_idx, FIFOE
    jtag,          \* Spi::jtag_exchange: position, length, bytes stored in rxdata
    dstart,        \* a start operation of the DMA: the register writes it is made
                   \* of, the position of the processor, the writes done, the
                   \* registers it found; INTSTATUS.ABORT and INTSTATUS.ERROR
    logtx,         \* the transmitter of UART0: the bytes it holds; history: the
                   \* transfers Uart<0>::send_bytes armed, the bytes the channel
                   \* read, the bytes it had not read when it was armed again
    spi,           \* SPI1: DATALEN, WRTRANCNT, RDTRANCNT, transmit and receive FIFO
    clk,           \* the clock line of SPI1: who controls it, and its level
    sp,            \* the call of an Spi primitive: its steps, the position of the
                   \* processor, its result; history: the words it pushed, those
                   \* shifted out, how many came back, which word each read took
    boot           \* App::setup: position of the processor, the delay clock, the
                   \* level of pin xpi0_sclk, what was initialized and how often

uartVars == <<buffer, last_idx, fifoe, ch6, rx, pc, plan, call, ret,
              written, returned, sync, lapped>>

usbVars == <<usb_state, halted, dev_state, device_state, read_ep, serial_rx,
             usb_ret, icall, trace_busy, write_ep, trace_ep, hid_ep, ucall>>

\* the transmit side of the USB functions
usbTxVars == <<trace_busy, write_ep, trace_ep, hid_ep>>

\* the receive side of the version 1 function, which the dispatcher leaves out
dap1Vars == <<hid_rx>>

appVars == <<resp_buf, pcall>>

dfuVars == <<dfu, dfu_xfer>>

dmaVars == <<chctrl, chsrc, chx, muxcfg, dcall>>

\* the SPI clock selection
presVars == <<base_clock, prescaler, clocking>>

\* the board support components added to the model after the DMA setup
\* the start of the firmware
bootVars == <<boot>>

\* the stream operations of the DMA and their callers
opsVars == <<tc, dop, uart0, jtag, dstart, logtx>>

\* the transaction layer on SPI1
spiVars == <<spi, clk, sp>>

bspVars == <<presVars, bootVars, opsVars, spiVars>>

\* everything but the transaction layer
nonSpiVars == <<uartVars, usbVars, dap1Vars, appVars, dfuVars, dmaVars, presVars,
                bootVars, opsVars>>

vars == <<uartVars, usbVars, dap1Vars, appVars, dfuVars, dmaVars, bspVars>>

\* what the operations of one component leave alone
nonUartVars == <<usbVars, dap1Vars, appVars, dfuVars, dmaVars, bspVars>>
nonUsbVars == <<uartVars, dap1Vars, appVars, dfuVars, dmaVars, bspVars>>
nonAppVars == <<uartVars, dap1Vars, dfuVars, dmaVars, bspVars>>
nonDfuVars == <<uartVars, usbVars, dap1Vars, appVars, dmaVars, bspVars>>
nonBspVars == <<uartVars, usbVars, dap1Vars, appVars, dfuVars, dmaVars>>
nonPresVars == <<nonBspVars, bootVars, opsVars, spiVars>>

----------------------------------------------------------------------------
(* Bounds of the model *)

\* capacity of the ring buffer in the interleaved specification
RingLen == 3
\* bytes the DMA engine writes after one arming of the channel
MaxWrites == 5
\* longest destination slice handed to read() in the interleaved specification
MaxRx == 2

(* Program constants *)

\* uart.rs: buffer: [u8; 256]
BUFFER_LEN == 256

Min(a, b) == IF a < b THEN a ELSE b

\* destination lengths tried against the 256-byte buffer
FnRxLens == {0, 1, 6, 10, 300}

----------------------------------------------------------------------------
(* hpm-probe-bsp/src/dma.rs *)

\* DMA::uart9_ndtr
uart9_ndtr == ch6.transize

\* DMA::uart9_start(rx): destination address, transfer size, enable
uart9_start(len) == [enable |-> TRUE, transize |-> len, dstaddr |-> "buffer"]

uart9_stop_other_channel == ch6

\* DMA::uart9_stop
uart9_stop == [ch6 EXCEPT !.enable = FALSE]

\* enum Channel, the channel constants and the channels DMA::setup binds
Channels == 0..7
SPI1_RX_CH == 0
SPI1_TX_CH == 1
SPI2_RX_CH == 2
SPI2_TX_CH == 3
UART0_RX_CH == 4
UART0_TX_CH == 5
UART9_RX_CH == 6
BoundChannels == {SPI1_RX_CH, SPI1_TX_CH, SPI2_RX_CH, SPI2_TX_CH,
                  UART0_RX_CH, UART0_TX_CH, UART9_RX_CH}

\* enum Source
Spi1Rx == 2
Spi1Tx == 3
Spi2Tx == 4
Spi2Rx == 5
Uart0Rx == 8
Uart0Tx == 9
Uart9Rx == 26

UART_THR_OFFSET == 32
SPI_DATA_OFFSET == 44

\* an address: the base of a peripheral's register block plus an offset
PeriAddr(base, offset) == [base |-> base, offset |-> offset]
NoAddr == [base |-> "none", offset |-> 0]

\* the CTRL register as it is before any setup, the ENABLE bit apart
ResetCtrl ==
    [SRCBUSINFIDX |-> 0, DSTBUSINFIDX |-> 0, PRIORITY |-> "reset",
     SRCBURSTSIZE |-> "reset", SRCWIDTH |-> "reset", DSTWIDTH |-> "reset",
     SRCMODE |-> "reset", DSTMODE |-> "reset", SRCADDRCTRL |-> "reset",
     DSTADDRCTRL |-> "reset", SRCREQSEL |-> 0, DSTREQSEL |-> 0,
     INTABTMASK |-> "reset", INTERRMASK |-> "reset", INTTCMASK |-> "reset"]

\* the registers of the DMA controller and the multiplexer DMA::setup writes
Registers ==
    [ctrl |-> chctrl,
     enable |-> [c \in Channels |-> IF c = 6 THEN ch6.enable ELSE chx[c].enable],
     src |-> chsrc,
     dst |-> [c \in Channels |-> IF c = 6 THEN ch6.dstaddr ELSE chx[c].dstaddr],
     mux |-> muxcfg]

\* the registers after reset
ResetRegisters ==
    [ctrl |-> [c \in Channels |-> ResetCtrl],
     enable |-> [c \in Channels |-> FALSE],
     src |-> [c \in Channels |-> NoAddr],
     dst |-> [c \in Channels |-> IF c = 6 THEN "none" ELSE NoAddr],
     mux |-> [c \in Channels |-> [enable |-> FALSE, source |-> 0]]]

setup_peri_to_memory_keeping_enable(r, channel, dmasrc, srcaddr) ==
    [r EXCEPT !.ctrl[channel] =
                  [SRCBUSINFIDX |-> 0, DSTBUSINFIDX |-> 0, PRIORITY |-> "Lower",
                   SRCBURSTSIZE |-> "Transfer1", SRCWIDTH |-> "Byte", DSTWIDTH |-> "Byte",
                   SRCMODE |-> "Handshake", DSTMODE |-> "Normal",
                   SRCADDRCTRL |-> "Fixed", DSTADDRCTRL |-> "Increment",
                   SRCREQSEL |-> channel, DSTREQSEL |-> channel,
                   INTABTMASK |-> "Disable", INTERRMASK |-> "Disable",
                   INTTCMASK |-> "Disable"],
              !.src[channel] = srcaddr,
              !.mux[channel] = [enable |-> TRUE, source |-> dmasrc]]

\* setup_peri_to_memory!: CTRL, SRCADDR and the multiplexer slot of the channel
setup_peri_to_memory(r, channel, dmasrc, srcaddr) ==
    [r EXCEPT !.ctrl[channel] =
                  [SRCBUSINFIDX |-> 0, DSTBUSINFIDX |-> 0, PRIORITY |-> "Lower",
                   SRCBURSTSIZE |-> "Transfer1", SRCWIDTH |-> "Byte", DSTWIDTH |-> "Byte",
                   SRCMODE |-> "Handshake", DSTMODE |-> "Normal",
                   SRCADDRCTRL |-> "Fixed", DSTADDRCTRL |-> "Increment",
                   SRCREQSEL |-> channel, DSTREQSEL |-> channel,
                   INTABTMASK |-> "Disable", INTERRMASK |-> "Disable",
                   INTTCMASK |-> "Disable"],
              !.enable[channel] = FALSE,
              !.src[channel] = srcaddr,
              !.mux[channel] = [enable |-> TRUE, source |-> dmasrc]]

\* setup_memory_to_peri!: CTRL, DSTADDR and the multiplexer slot of the channel
setup_memory_to_peri(r, channel, dmasrc, dstaddr) ==
    [r EXCEPT !.ctrl[channel] =
                  [SRCBUSINFIDX |-> 0, DSTBUSINFIDX |-> 0, PRIORITY |-> "Lower",
                   SRCBURSTSIZE |-> "Transfer1", SRCWIDTH |-> "Byte", DSTWIDTH |-> "Byte",
                   SRCMODE |-> "Normal", DSTMODE |-> "Handshake",
                   SRCADDRCTRL |-> "Increment", DSTADDRCTRL |-> "Fixed",
                   SRCREQSEL |-> channel, DSTREQSEL |-> channel,
                   INTABTMASK |-> "Disable", INTERRMASK |-> "Disable",
                   INTTCMASK |-> "Disable"],
              !.enable[channel] = FALSE,
              !.dst[channel] = dstaddr,
              !.mux[channel] = [enable |-> TRUE, source |-> dmasrc]]

\* DMA::setup: the seven channels in turn
setup(r) ==
    LET r0 == setup_peri_to_memory(r, SPI1_RX_CH, Spi1Rx, PeriAddr("SPI1", SPI_DATA_OFFSET))
        r1 == setup_memory_to_peri(r0, SPI1_TX_CH, Spi1Tx, PeriAddr("SPI1", SPI_DATA_OFFSET))
        r2 == setup_peri_to_memory(r1, SPI2_RX_CH, Spi2Rx, PeriAddr("SPI2", SPI_DATA_OFFSET))
        r3 == setup_memory_to_peri(r2, SPI2_TX_CH, Spi2Tx, PeriAddr("SPI2", SPI_DATA_OFFSET))
        r4 == setup_peri_to_memory(r3, UART0_RX_CH, Uart0Rx, PeriAddr("UART0", UART_THR_OFFSET))
        r5 == setup_memory_to_peri(r4, UART0_TX_CH, Uart0Tx, PeriAddr("UART0", UART_THR_OFFSET))
    IN  setup_peri_to_memory(r5, UART9_RX_CH, Uart9Rx, PeriAddr("UART9", UART_THR_OFFSET))

\* most calls of DMA::setup
MaxSetups == 2

\* the channels whose ENABLE bit is set
Enabled == {c \in Channels : Registers.enable[c]}

\* DMA::setup: what it does to the registers, and the record of the call
setup_registers ==
    /\ \E r \in {setup(Registers)} :
          /\ chctrl' = r.ctrl
          /\ chsrc' = r.src
          /\ muxcfg' = r.mux
          /\ ch6' = [ch6 EXCEPT !.enable = r.enable[6], !.dstaddr = r.dst[6]]
          /\ chx' = [c \in Channels \ {6} |->
                       [chx[c] EXCEPT !.enable = r.enable[c], !.dstaddr = r.dst[c]]]
    /\ dcall' = [n |-> dcall.n + 1,
                 first_enabled |-> IF dcall.n = 0 THEN Enabled ELSE dcall.first_enabled,
                 first_ctrl |-> IF dcall.n = 0 THEN chctrl ELSE dcall.first_ctrl]

\* DMA::setup
DMA_setup ==
    /\ dcall.n < MaxSetups
    /\ setup_registers
    /\ UNCHANGED <<buffer, last_idx, fifoe, rx, pc, plan, call, ret,
                   written, returned, sync, lapped>>
    /\ UNCHANGED <<usbVars, dap1Vars, appVars, dfuVars, bspVars>>

----------------------------------------------------------------------------
(* hpm-probe-bsp/src/uart.rs *)

buffer_len == Len(buffer)

\* let dma_idx = self.buffer.len() - self.dma.uart9_ndtr();
dma_idx_of(len, ndtr) == len - ndtr

bytes_available_nowrap(len, last, ndtr) ==
    LET dma_idx == dma_idx_of(len, ndtr)
    IN  IF dma_idx >= last
        THEN dma_idx - last
        ELSE last - dma_idx

\* Uart::bytes_available
bytes_available(len, last, ndtr) ==
    LET dma_idx == dma_idx_of(len, ndtr)
    IN  IF dma_idx >= last
        THEN dma_idx - last
        ELSE (len - last) + dma_idx

read_plan_advance_available(len, last, ndtr, rxlen) ==
    LET dma_idx == dma_idx_of(len, ndtr)
        n == bytes_available(len, last, ndtr)
        m == Min(n, rxlen)
    IN  IF dma_idx < last
        THEN [dma_idx |-> dma_idx, n1 |-> Min(len - last, m),
              n2 |-> m - Min(len - last, m), new_last_idx |-> dma_idx]
        ELSE [dma_idx |-> dma_idx, n1 |-> m, n2 |-> 0, new_last_idx |-> dma_idx]

read_plan_keeping_second_copy(len, last, ndtr, rxlen) ==
    LET dma_idx == dma_idx_of(len, ndtr)
    IN  IF dma_idx = last
        THEN [dma_idx |-> dma_idx, n1 |-> 0, n2 |-> 0, new_last_idx |-> last]
        ELSE IF dma_idx < last
        THEN LET n1 == len - last
                 n2 == dma_idx
             IN  IF n1 > rxlen
                 THEN [dma_idx |-> dma_idx, n1 |-> rxlen, n2 |-> n2,
                       new_last_idx |-> last + rxlen]
                 ELSE IF (n1 + n2) > rxlen
                 THEN [dma_idx |-> dma_idx, n1 |-> n1, n2 |-> rxlen - n1,
                       new_last_idx |-> rxlen - n1]
                 ELSE [dma_idx |-> dma_idx, n1 |-> n1, n2 |-> n2,
                       new_last_idx |-> dma_idx]
        ELSE LET n == Min(dma_idx - last, rxlen)
             IN  [dma_idx |-> dma_idx, n1 |-> n, n2 |-> 0,
                  new_last_idx |-> last + n]

\* Uart::read, up to the copies: the snapshot of the DMA cursor and the three
\* branches of the match, with the truncation to rx.len()
read_plan(len, last, ndtr, rxlen) ==
    LET dma_idx == dma_idx_of(len, ndtr)
    IN  IF dma_idx = last
        THEN [dma_idx |-> dma_idx, n1 |-> 0, n2 |-> 0, new_last_idx |-> last]
        ELSE IF dma_idx < last
        THEN LET n1 == len - last
                 n2 == dma_idx
             IN  IF n1 > rxlen
                 THEN [dma_idx |-> dma_idx, n1 |-> rxlen, n2 |-> 0,
                       new_last_idx |-> last + rxlen]
                 ELSE IF (n1 + n2) > rxlen
                 THEN [dma_idx |-> dma_idx, n1 |-> n1, n2 |-> rxlen - n1,
                       new_last_idx |-> rxlen - n1]
                 ELSE [dma_idx |-> dma_idx, n1 |-> n1, n2 |-> n2,
                       new_last_idx |-> dma_idx]
        ELSE LET n == Min(dma_idx - last, rxlen)
             IN  [dma_idx |-> dma_idx, n1 |-> n, n2 |-> 0,
                  new_last_idx |-> last + n]

copy_from_slices_same_index(dst, buf, last, n1, n2) ==
    [i \in 1..Len(dst) |->
        IF i <= n1 THEN buf[last + i]
        ELSE IF i <= n1 + n2 THEN buf[i]
        ELSE dst[i]]

\* rx[..n1].copy_from_slice(&self.buffer[self.last_idx..self.last_idx + n1]);
\* rx[n1..(n1 + n2)].copy_from_slice(&self.buffer[..n2]);
copy_from_slices(dst, buf, last, n1, n2) ==
    [i \in 1..Len(dst) |->
        IF i <= n1 THEN buf[last + i]
        ELSE IF i <= n1 + n2 THEN buf[i - n1]
        ELSE dst[i]]

----------------------------------------------------------------------------
(* The calls of the Uart API.  Every call records in `call` what it was
   given and the state it found; call.seq flips at every call. *)

Idle == pc = "idle"

\* the histories are kept while the cursors are coherent and no overrun happened
Tracking == sync /\ ~lapped

called(op, rxlen) ==
    [op |-> op, rxlen |-> rxlen, last_idx |-> last_idx, ndtr |-> uart9_ndtr,
     written |-> written, seq |-> 1 - call.seq]

\* Uart::start: the cursor is reset and the FIFO is enabled; the call of
\* DMA::uart9_start is commented out in the source and so is not made.
Uart_start ==
    /\ Idle
    /\ last_idx' = 0
    /\ fifoe' = TRUE
    /\ call' = called("start", 0)
    /\ ret' = 0
    /\ written' = 0
    /\ returned' = << >>
    /\ lapped' = FALSE
    /\ sync' = (ch6.dstaddr = "buffer" /\ dma_idx_of(buffer_len, uart9_ndtr) = 0)
    /\ UNCHANGED <<buffer, ch6, rx, pc, plan>>
    /\ UNCHANGED nonUartVars

\* DMA::uart9_start(&mut self.buffer): the receive channel is armed on the
\* ring buffer
DMA_uart9_start ==
    /\ Idle
    /\ tc' = tc \ {UART9_RX_CH}
    /\ ch6' = uart9_start(buffer_len)
    /\ call' = called("uart9_start", 0)
    /\ ret' = 0
    /\ written' = 0
    /\ returned' = << >>
    /\ lapped' = FALSE
    /\ sync' = (last_idx = 0)
    /\ UNCHANGED <<buffer, last_idx, fifoe, rx, pc, plan>>
    /\ UNCHANGED <<usbVars, dap1Vars, appVars, dfuVars, dmaVars, presVars, bootVars,
                   dop, uart0, jtag, dstart, logtx, spiVars>>

\* Uart::stop
Uart_stop ==
    /\ Idle
    /\ ch6' = uart9_stop
    /\ fifoe' = FALSE
    /\ call' = called("stop", 0)
    /\ ret' = 0
    /\ UNCHANGED <<buffer, last_idx, rx, pc, plan, written, returned, sync, lapped>>
    /\ UNCHANGED nonUartVars

Uart_bytes_available_consuming ==
    /\ Idle
    /\ ret' = bytes_available(buffer_len, last_idx, uart9_ndtr)
    /\ last_idx' = dma_idx_of(buffer_len, uart9_ndtr)
    /\ call' = called("bytes_available", 0)
    /\ UNCHANGED <<buffer, fifoe, ch6, rx, pc, plan, written, returned, sync, lapped>>
    /\ UNCHANGED nonUartVars

\* Uart::bytes_available(&self)
Uart_bytes_available ==
    /\ Idle
    /\ ret' = bytes_available(buffer_len, last_idx, uart9_ndtr)
    /\ call' = called("bytes_available", 0)
    /\ UNCHANGED <<buffer, last_idx, fifoe, ch6, rx, pc, plan,
                   written, returned, sync, lapped>>
    /\ UNCHANGED nonUartVars

\* Uart::read(rx), first half: the DMA cursor is sampled and the ranges to
\* copy are computed
Uart_read_begin(rxlen) ==
    /\ Idle
    /\ plan' = read_plan(buffer_len, last_idx, uart9_ndtr, rxlen)
    /\ rx' = [i \in 1..rxlen |-> 0]
    /\ pc' = "copy"
    /\ call' = called("read", rxlen)
    /\ UNCHANGED <<buffer, last_idx, fifoe, ch6, ret, written, returned, sync, lapped>>
    /\ UNCHANGED nonUartVars

Uart_read_finish_resampling ==
    LET p == read_plan(buffer_len, last_idx, uart9_ndtr, Len(rx))
    IN  /\ pc = "copy"
        /\ rx' = copy_from_slices(rx, buffer, last_idx, p.n1, p.n2)
        /\ last_idx' = p.new_last_idx
        /\ ret' = p.n1 + p.n2
        /\ pc' = "idle"
        /\ returned' = IF Tracking THEN returned \o SubSeq(rx', 1, ret') ELSE returned
        /\ UNCHANGED <<buffer, fifoe, ch6, plan, call, written, sync, lapped>>
        /\ UNCHANGED nonUartVars

\* Uart::read(rx), second half: the copies, the new cursor, the return value
Uart_read_finish ==
    /\ pc = "copy"
    /\ rx' = copy_from_slices(rx, buffer, last_idx, plan.n1, plan.n2)
    /\ last_idx' = plan.new_last_idx
    /\ ret' = plan.n1 + plan.n2
    /\ pc' = "idle"
    /\ returned' = IF Tracking THEN returned \o SubSeq(rx', 1, ret') ELSE returned
    /\ UNCHANGED <<buffer, fifoe, ch6, plan, call, written, sync, lapped>>
    /\ UNCHANGED nonUartVars

----------------------------------------------------------------------------
(* hpm-probe-bsp/src/dma.rs: the operations of the streams *)

\* a buffer in memory
Memory(name) == [base |-> name, offset |-> 0]

\* the registers the stream operations read and write
Stream == [x |-> chx, src |-> chsrc, tc |-> tc, c6 |-> ch6]

\* write_reg!(dma, self.dma, INTSTATUS, TC: bits, ABORT: bits, ERROR: bits):
\* the status bits written with 1 are cleared, the others are left
clear_status(d, channels) == [d EXCEPT !.tc = d.tc \ channels]

\* DSTADDR and TRANSIZE of a receiving channel, SRCADDR and TRANSIZE of a
\* transmitting channel, the ENABLE bit
arm_rx(d, c, buf, len) == [d EXCEPT !.x[c].dstaddr = Memory(buf), !.x[c].transize = len]
arm_tx(d, c, buf, len) == [d EXCEPT !.src[c] = Memory(buf), !.x[c].transize = len]
enable(d, c, on) == [d EXCEPT !.x[c].enable = on]

\* DMA::spi1_enable(tx, rx)
spi1_enable(d, len) ==
    enable(enable(arm_tx(arm_rx(clear_status(d, {SPI1_RX_CH, SPI1_TX_CH}),
                                SPI1_RX_CH, "rx", len), SPI1_TX_CH, "tx", len),
                  SPI1_RX_CH, TRUE), SPI1_TX_CH, TRUE)

\* DMA::spi1_busy
spi1_busy(d) == SPI1_TX_CH \in d.tc

\* DMA::spi1_disable
spi1_disable(d) == enable(enable(d, SPI1_RX_CH, FALSE), SPI1_TX_CH, FALSE)

\* DMA::spi2_enable(tx, rx)
spi2_enable(d, len) ==
    enable(enable(arm_tx(arm_rx(clear_status(d, {SPI2_RX_CH, SPI2_TX_CH}),
                                SPI2_RX_CH, "rx", len), SPI2_TX_CH, "tx", len),
                  SPI2_RX_CH, TRUE), SPI2_TX_CH, TRUE)

\* DMA::spi2_busy
spi2_busy(d) == SPI2_TX_CH \in d.tc

\* DMA::spi2_disable
spi2_disable(d) == enable(enable(d, SPI2_RX_CH, FALSE), SPI2_TX_CH, FALSE)

\* DMA::uart0_start_rx(rx)
uart0_start_rx(d, len) ==
    enable(arm_rx(clear_status(d, {UART0_RX_CH}), UART0_RX_CH, "rx", len),
           UART0_RX_CH, TRUE)

\* DMA::uart0_rx_ndtr, DMA::uart0_tx_ndtr
uart0_rx_ndtr(d) == d.x[UART0_RX_CH].transize
uart0_tx_ndtr(d) == d.x[UART0_TX_CH].transize

\* DMA::uart0_start_tx_transfer(tx)
uart0_start_tx_transfer(d, len) ==
    enable(arm_tx(clear_status(d, {UART0_TX_CH}), UART0_TX_CH, "tx", len),
           UART0_TX_CH, TRUE)

\* DMA::uart0_stop
uart0_stop(d) == enable(enable(d, UART0_RX_CH, FALSE), UART0_TX_CH, FALSE)

\* one register write of a start operation: the register, the channels it
\* names, the buffer whose address or the length that is written
W(reg, ch, buf, len) == [reg |-> reg, ch |-> ch, buf |-> buf, len |-> len]

\* DMA::spi1_enable(tx, rx), write by write
spi1_enable_writes(len) ==
    <<W("INTSTATUS", {SPI1_RX_CH, SPI1_TX_CH}, "", 0),
      W("DSTADDR", {0}, "rx", 0), W("TRANSIZE", {0}, "", len),
      W("SRCADDR", {1}, "tx", 0), W("TRANSIZE", {1}, "", len),
      W("ENABLE", {0}, "", 0), W("ENABLE", {1}, "", 0)>>

\* DMA::spi2_enable(tx, rx), write by write
spi2_enable_writes(len) ==
    <<W("INTSTATUS", {SPI2_RX_CH, SPI2_TX_CH}, "", 0),
      W("DSTADDR", {2}, "rx", 0), W("TRANSIZE", {2}, "", len),
      W("SRCADDR", {3}, "tx", 0), W("TRANSIZE", {3}, "", len),
      W("ENABLE", {2}, "", 0), W("ENABLE", {3}, "", 0)>>

\* DMA::uart9_start(rx), write by write
uart9_start_writes(len) ==
    <<W("INTSTATUS", {UART9_RX_CH}, "", 0),
      W("DSTADDR", {6}, "buffer", 0), W("TRANSIZE", {6}, "", len),
      W("ENABLE", {6}, "", 0)>>

\* DMA::uart0_start_rx(rx), write by write
uart0_start_rx_writes(len) ==
    <<W("INTSTATUS", {UART0_RX_CH}, "", 0),
      W("DSTADDR", {4}, "rx", 0), W("TRANSIZE", {4}, "", len),
      W("ENABLE", {4}, "", 0)>>

uart0_start_tx_transfer_enable_first(len) ==
    <<W("INTSTATUS", {UART0_TX_CH}, "", 0),
      W("ENABLE", {5}, "", 0),
      W("SRCADDR", {5}, "tx", 0), W("TRANSIZE", {5}, "", len)>>

\* DMA::uart0_start_tx_transfer(tx), write by write
uart0_start_tx_transfer_writes(len) ==
    <<W("INTSTATUS", {UART0_TX_CH}, "", 0),
      W("SRCADDR", {5}, "tx", 0), W("TRANSIZE", {5}, "", len),
      W("ENABLE", {5}, "", 0)>>

\* write_reg! and modify_reg! on the registers of the DMA: the status bits
\* written with 1 are cleared, an address or size register takes the value,
\* modify_reg!(CTRL, ENABLE: Enable) sets the enable bit and keeps the rest
write_reg(d, w) ==
    LET c == CHOOSE c \in w.ch : TRUE IN
    CASE w.reg = "INTSTATUS" -> clear_status(d, w.ch)
      [] w.reg = "DSTADDR" -> IF c = 6 THEN [d EXCEPT !.c6.dstaddr = w.buf]
                              ELSE [d EXCEPT !.x[c].dstaddr = Memory(w.buf)]
      [] w.reg = "SRCADDR" -> [d EXCEPT !.src[c] = Memory(w.buf)]
      [] w.reg = "TRANSIZE" -> IF c = 6 THEN [d EXCEPT !.c6.transize = w.len]
                               ELSE [d EXCEPT !.x[c].transize = w.len]
      [] w.reg = "ENABLE" -> IF c = 6 THEN [d EXCEPT !.c6.enable = TRUE]
                             ELSE enable(d, c, TRUE)

\* most start operations called in a row
MaxStarts == 2

\* what a start operation leaves alone
startFrame ==
    <<buffer, last_idx, fifoe, rx, pc, plan, call, ret, written, returned, sync,
      lapped, usbVars, dap1Vars, appVars, dfuVars, chctrl, muxcfg, dcall, presVars,
      bootVars, dop, uart0, jtag, logtx, spiVars>>

\* a start operation is called: the registers it finds are noted
DMA_start_call(op, prog, len) ==
    /\ dstart.call.pc = 0
    /\ dstart' = [dstart EXCEPT
                     !.call = [op |-> op, len |-> len, pc |-> 1, prog |-> prog,
                               writes |-> << >>, n |-> dstart.call.n + 1],
                     !.before = [x |-> chx, src |-> chsrc, tc |-> tc, c6 |-> ch6,
                                 abort |-> dstart.abort, error |-> dstart.error]]
    /\ UNCHANGED <<chx, chsrc, tc, ch6>>
    /\ UNCHANGED startFrame

\* the next register write of the operation
DMA_start_write ==
    /\ dstart.call.pc \in 1..Len(dstart.call.prog)
    /\ \E w \in {dstart.call.prog[dstart.call.pc]} :
        \E d \in {write_reg(Stream, w)} :
          /\ chx' = d.x
          /\ chsrc' = d.src
          /\ tc' = d.tc
          /\ ch6' = d.c6
          /\ dstart' = [dstart EXCEPT
                           !.call.pc = @ + 1,
                           !.call.writes = Append(@, w),
                           !.abort = IF w.reg = "INTSTATUS" THEN @ \ w.ch ELSE @,
                           !.error = IF w.reg = "INTSTATUS" THEN @ \ w.ch ELSE @]
    /\ UNCHANGED startFrame

\* the operation returns
DMA_start_return ==
    /\ dstart.call.pc = Len(dstart.call.prog) + 1
    /\ dstart' = [dstart EXCEPT !.call.pc = 0]
    /\ UNCHANGED <<chx, chsrc, tc, ch6>>
    /\ UNCHANGED startFrame

\* most transfers of the log sink in a row, and the bytes the transmitter
\* of UART0 holds before LSR.THRE is cleared
MaxSends == 3
TxFifoDepth == 1

\* what the log sink and the transmit side of UART0 leave alone
logFrame ==
    <<buffer, last_idx, fifoe, ch6, rx, pc, plan, call, ret, written, returned, sync,
      lapped, usbVars, dap1Vars, appVars, dfuVars, chctrl, chsrc, muxcfg, dcall,
      presVars, bootVars, dop, uart0, jtag, dstart, spiVars>>

\* Uart::is_tx_fifo_empty: LSR.THRE is 1
is_tx_fifo_empty == logtx.fifo = 0

\* Uart<0>::send_bytes(s): the loop is left when the transmitter is empty,
\* then the transfer is started; cut counts the bytes of the transfer before
\* that the channel had not read yet
Uart0_send_bytes(len) ==
    /\ is_tx_fifo_empty
    /\ \E d \in {uart0_start_tx_transfer(Stream, len)} :
          /\ chx' = d.x
          /\ tc' = d.tc
    /\ logtx' = [logtx EXCEPT !.n = @ + 1, !.len = len,
                               !.lens = Append(@, len),
                               !.cut = @ + uart0_tx_ndtr(Stream)]
    /\ UNCHANGED logFrame

\* the DMA engine moves the next byte of the source buffer to the
\* transmitter when it has room; the status bit is set with the last byte
DmaUart0Transmit ==
    /\ chx[UART0_TX_CH].enable
    /\ chx[UART0_TX_CH].transize > 0
    /\ logtx.fifo < TxFifoDepth
    /\ chx' = [chx EXCEPT ![UART0_TX_CH].transize = @ - 1]
    /\ tc' = IF chx[UART0_TX_CH].transize = 1 THEN tc \cup {UART0_TX_CH} ELSE tc
    /\ logtx' = [logtx EXCEPT !.fifo = @ + 1, !.sent = @ + 1]
    /\ UNCHANGED logFrame

\* the transmitter of UART0 shifts a byte out
Uart0Shift ==
    /\ logtx.fifo > 0
    /\ logtx' = [logtx EXCEPT !.fifo = @ - 1]
    /\ UNCHANGED <<chx, tc>>
    /\ UNCHANGED logFrame

\* most stream operations called in a row, longest transfer armed
MaxStreamOps == 2
MaxTransfer == 2

\* the operation is called: the registers become d, the call is recorded with
\* the peripheral it was called for and the channels whose registers it accessed
stream_op(peripheral, op, accessed, d, result) ==
    /\ dop.n < MaxStreamOps
    /\ chx' = d.x
    /\ chsrc' = d.src
    /\ tc' = d.tc
    /\ ch6' = d.c6
    /\ dop' = [peripheral |-> peripheral, op |-> op, accessed |-> accessed,
               result |-> result, n |-> dop.n + 1]

\* what an operation of the DMA leaves alone
streamFrame ==
    <<buffer, last_idx, fifoe, rx, pc, plan, call, ret, written, returned, sync,
      lapped, usbVars, dap1Vars, appVars, dfuVars, chctrl, muxcfg, dcall, presVars,
      bootVars, jtag, dstart, logtx, spiVars>>

DMA_spi1_enable(len) ==
    /\ stream_op("SPI1", "spi1_enable", {SPI1_RX_CH, SPI1_TX_CH}, spi1_enable(Stream, len), 0)
    /\ UNCHANGED <<uart0, streamFrame>>

DMA_spi1_busy ==
    /\ stream_op("SPI1", "spi1_busy", {SPI1_TX_CH}, Stream,
                 IF spi1_busy(Stream) THEN 1 ELSE 0)
    /\ UNCHANGED <<uart0, streamFrame>>

DMA_spi1_disable ==
    /\ stream_op("SPI1", "spi1_disable", {SPI1_RX_CH, SPI1_TX_CH}, spi1_disable(Stream), 0)
    /\ UNCHANGED <<uart0, streamFrame>>

DMA_spi2_enable(len) ==
    /\ stream_op("SPI2", "spi2_enable", {SPI2_RX_CH, SPI2_TX_CH}, spi2_enable(Stream, len), 0)
    /\ UNCHANGED <<uart0, streamFrame>>

DMA_spi2_busy ==
    /\ stream_op("SPI2", "spi2_busy", {SPI2_TX_CH}, Stream,
                 IF spi2_busy(Stream) THEN 1 ELSE 0)
    /\ UNCHANGED <<uart0, streamFrame>>

DMA_spi2_disable ==
    /\ stream_op("SPI2", "spi2_disable", {SPI2_RX_CH, SPI2_TX_CH}, spi2_disable(Stream), 0)
    /\ UNCHANGED <<uart0, streamFrame>>

DMA_uart0_start_rx(len) ==
    /\ stream_op("UART0", "uart0_start_rx", {UART0_RX_CH}, uart0_start_rx(Stream, len), 0)
    /\ UNCHANGED <<uart0, streamFrame>>

DMA_uart0_rx_ndtr ==
    /\ stream_op("UART0", "uart0_rx_ndtr", {UART0_RX_CH}, Stream, uart0_rx_ndtr(Stream))
    /\ UNCHANGED <<uart0, streamFrame>>

DMA_uart0_tx_ndtr ==
    /\ stream_op("UART0", "uart0_tx_ndtr", {UART0_TX_CH}, Stream, uart0_tx_ndtr(Stream))
    /\ UNCHANGED <<uart0, streamFrame>>

DMA_uart0_start_tx_transfer(len) ==
    /\ stream_op("UART0", "uart0_start_tx_transfer", {UART0_TX_CH},
                 uart0_start_tx_transfer(Stream, len), 0)
    /\ UNCHANGED <<uart0, streamFrame>>

DMA_uart0_stop ==
    /\ stream_op("UART0", "uart0_stop", {UART0_RX_CH, UART0_TX_CH}, uart0_stop(Stream), 0)
    /\ UNCHANGED <<uart0, streamFrame>>

----------------------------------------------------------------------------
(* hpm-probe-bsp/src/uart.rs: the instance Uart<0> of main.rs *)

\* Uart::<0>::start: the DMA is not called
Uart0_start ==
    /\ stream_op("UART0", "start", {}, Stream, 0)
    /\ uart0' = [last_idx |-> 0, fifoe |-> TRUE]
    /\ UNCHANGED streamFrame

\* Uart::<0>::stop: self.dma.uart9_stop(), then FIFOE of UART0 is cleared
Uart0_stop ==
    /\ stream_op("UART0", "stop", {UART9_RX_CH}, [Stream EXCEPT !.c6 = uart9_stop], 0)
    /\ uart0' = [uart0 EXCEPT !.fifoe = FALSE]
    /\ UNCHANGED streamFrame

\* Uart::<0>::bytes_available: self.dma.uart9_ndtr() against its own cursor
Uart0_bytes_available ==
    /\ stream_op("UART0", "bytes_available", {UART9_RX_CH}, Stream,
                 bytes_available(buffer_len, uart0.last_idx, uart9_ndtr))
    /\ UNCHANGED <<uart0, streamFrame>>

\* Uart::<0>::read(rx): self.dma.uart9_ndtr() against its own cursor and buffer
Uart0_read(rxlen) ==
    /\ \E p \in {read_plan(buffer_len, uart0.last_idx, uart9_ndtr, rxlen)} :
          /\ stream_op("UART0", "read", {UART9_RX_CH}, Stream, p.n1 + p.n2)
          /\ uart0' = [uart0 EXCEPT !.last_idx = p.new_last_idx]
    /\ UNCHANGED streamFrame

----------------------------------------------------------------------------
(* hpm-probe-bsp/src/spi.rs: Spi::jtag_exchange *)

\* most exchanges in a row, longest txdata
MaxExchanges == 2
MaxJtagLen == 2

\* what jtag_exchange and the SPI2 channels leave alone
jtagFrame ==
    <<uartVars, usbVars, dap1Vars, appVars, dfuVars, chctrl, muxcfg, dcall, presVars,
      bootVars, dop, uart0, dstart, logtx, spiVars>>

\* the registers become d
registers(d) ==
    /\ chx' = d.x
    /\ chsrc' = d.src
    /\ tc' = d.tc

\* dma.spi2_enable(txdata, &mut rxdata[..txdata.len()])
Spi_jtag_exchange_enable(len) ==
    /\ jtag.pc \in {"idle", "returned"}
    /\ jtag.n < MaxExchanges
    /\ registers(spi2_enable(Stream, len))
    /\ jtag' = [pc |-> "wait", len |-> len, stored |-> 0, n |-> jtag.n + 1]
    /\ UNCHANGED jtagFrame

\* while dma.spi2_busy() {}: one evaluation of the condition
Spi_jtag_exchange_wait ==
    /\ jtag.pc = "wait"
    /\ jtag' = [jtag EXCEPT !.pc = IF spi2_busy(Stream) THEN "wait" ELSE "disable"]
    /\ UNCHANGED <<chx, chsrc, tc>>
    /\ UNCHANGED jtagFrame

\* dma.spi2_disable(), and the return
Spi_jtag_exchange_disable ==
    /\ jtag.pc = "disable"
    /\ registers(spi2_disable(Stream))
    /\ jtag' = [jtag EXCEPT !.pc = "returned"]
    /\ UNCHANGED jtagFrame

\* the transmit channel of SPI2 moves one byte of txdata to the data register;
\* with the last byte the transfer-complete bit of the channel is set
DmaSpi2Transmit ==
    /\ chx[SPI2_TX_CH].enable
    /\ chx[SPI2_TX_CH].transize > 0
    /\ chx' = [chx EXCEPT ![SPI2_TX_CH].transize = @ - 1]
    /\ tc' = IF chx[SPI2_TX_CH].transize = 1 THEN tc \cup {SPI2_TX_CH} ELSE tc
    /\ UNCHANGED <<chsrc, jtag>>
    /\ UNCHANGED jtagFrame

\* the receive channel of SPI2 stores one byte shifted in, which is there once
\* the byte exchanged for it was transmitted; with the last byte the
\* transfer-complete bit of the channel is set
DmaSpi2Receive ==
    /\ chx[SPI2_RX_CH].enable
    /\ chx[SPI2_RX_CH].transize > chx[SPI2_TX_CH].transize
    /\ chx' = [chx EXCEPT ![SPI2_RX_CH].transize = @ - 1]
    /\ tc' = IF chx[SPI2_RX_CH].transize = 1 THEN tc \cup {SPI2_RX_CH} ELSE tc
    /\ jtag' = [jtag EXCEPT !.stored = @ + 1]
    /\ UNCHANGED chsrc
    /\ UNCHANGED jtagFrame

----------------------------------------------------------------------------
(* The DMA engine, running concurrently with the processor *)

\* one byte received: stored at the write cursor, the remaining count drops.
\* The bytes of a tracked stream are numbered 1, 2, ... in the order received.
DmaWrite ==
    /\ ch6.enable
    /\ ch6.dstaddr = "buffer"
    /\ ch6.transize > 0
    /\ Tracking => written < MaxWrites
    /\ buffer' = [buffer EXCEPT ![buffer_len - ch6.transize + 1] =
                                    IF Tracking THEN written + 1 ELSE 0]
    /\ ch6' = [ch6 EXCEPT !.transize = ch6.transize - 1]
    /\ written' = IF Tracking THEN written + 1 ELSE written
    /\ lapped' = (lapped \/ (Tracking /\ (written + 1) - Len(returned) >= buffer_len))
    /\ UNCHANGED <<last_idx, fifoe, rx, pc, plan, call, ret, returned, sync>>
    /\ UNCHANGED nonUartVars

\* circular reception: the exhausted count is reloaded with the buffer length
DmaReload ==
    /\ ch6.enable
    /\ ch6.dstaddr = "buffer"
    /\ ch6.transize = 0
    /\ ch6' = [ch6 EXCEPT !.transize = buffer_len]
    /\ UNCHANGED <<buffer, last_idx, fifoe, rx, pc, plan, call, ret,
                   written, returned, sync, lapped>>
    /\ UNCHANGED nonUartVars

----------------------------------------------------------------------------
(* firmware/src/usb/dap_v2.rs, firmware/src/usb/mod.rs *)

\* most packets an endpoint holds unread
MaxPending == 1

\* UsbDeviceState
DeviceStates == {"Default", "Addressed", "Configured", "Suspend"}

\* the command packets the host sends (one of them empty) and the serial ones
CommandPackets == {<< >>, <<1>>, <<1, 2>>}
SerialPackets == {<<3>>, <<3, 4>>}

\* Option<Request>: None, Request::Suspend, Request::DAP2Command((buf, size)),
\* Request::VCPPacket((buf, x)); data is buf[..size]
NoRequest == [tag |-> "None", data |-> << >>]
Suspend == [tag |-> "Suspend", data |-> << >>]
DAP2Command(data) == [tag |-> "DAP2Command", data |-> data]
VCPPacket(data) == [tag |-> "VCPPacket", data |-> data]

process_accepting_empty(ep) ==
    IF ep = << >>
    THEN [req |-> NoRequest, ep |-> ep, read |-> TRUE]
    ELSE [req |-> DAP2Command(Head(ep)), ep |-> Tail(ep), read |-> TRUE]

\* CmsisDapV2::process: read_ep.read(&mut buf) is Ok(size) with a packet
\* pending, which it consumes, and an error otherwise
process(ep) ==
    IF ep = << >>
    THEN [req |-> NoRequest, ep |-> ep, read |-> TRUE]
    ELSE [req |-> IF Len(Head(ep)) > 0 THEN DAP2Command(Head(ep)) ELSE NoRequest,
          ep |-> Tail(ep), read |-> TRUE]

\* usb.serial.read(&mut buf): Ok(x) with a packet pending, an error otherwise
serial_read(ser) ==
    IF ser = << >>
    THEN [ok |-> FALSE, data |-> << >>, ser |-> ser]
    ELSE [ok |-> TRUE, data |-> Head(ser), ser |-> Tail(ser)]

(* Program constants of firmware/src/main.rs *)

DAP1_PACKET_SIZE == 64
DAP2_PACKET_SIZE == 512

\* a packet of n bytes
Packet(n) == [i \in 1..n |-> i % 256]

\* lengths of the packets handed to dap2_reply and dap2_stream_swo, around the
\* endpoints' maximum packet size
TxLens == {1, DAP2_PACKET_SIZE, DAP2_PACKET_SIZE + 1}

\* an IN endpoint: idle, or holding the packet handed to it until it is sent
EpIdle == [pending |-> FALSE, data |-> << >>]
EpHolding(data) == [pending |-> TRUE, data |-> data]

\* <endpoint>.write(data): ok is whether the endpoint took the packet
ep_write(ep, data, ok) == IF ok THEN EpHolding(data) ELSE ep

\* what a write operation did: its Result, whether it called the endpoint's
\* write, the endpoint and the busy flag afterwards
Written(result, wrote, ep, busy) ==
    [result |-> result, wrote |-> wrote, ep |-> ep, busy |-> busy]

\* CmsisDapV2::write_packet(data)
write_packet(ep, busy, data, ok) ==
    IF Len(data) > DAP2_PACKET_SIZE
    THEN Written("BufferOverflow", FALSE, ep, busy)
    ELSE Written(IF ok THEN "Ok" ELSE "WouldBlock", TRUE, ep_write(ep, data, ok), busy)

trace_write_truncating(ep, busy, data, ok) ==
    LET d == SubSeq(data, 1, Min(Len(data), DAP2_PACKET_SIZE))
    IN  Written(IF ok THEN "Ok" ELSE "WouldBlock", TRUE, ep_write(ep, d, ok),
                IF ok THEN TRUE ELSE busy)

\* CmsisDapV2::trace_write(data)
trace_write(ep, busy, data, ok) ==
    IF Len(data) > DAP2_PACKET_SIZE
    THEN Written("BufferOverflow", FALSE, ep, busy)
    ELSE Written(IF ok THEN "Ok" ELSE "WouldBlock", TRUE, ep_write(ep, data, ok),
                 IF ok THEN TRUE ELSE busy)

\* CmsisDapV1::write_packet(data), on the 64-byte report endpoint
dap1_write_packet(ep, busy, data, ok) ==
    IF Len(data) > DAP1_PACKET_SIZE
    THEN Written("BufferOverflow", FALSE, ep, busy)
    ELSE Written(IF ok THEN "Ok" ELSE "WouldBlock", TRUE, ep_write(ep, data, ok), busy)

\* what device.poll tells the classes: nothing, a bus reset, or the completion
\* of the IN transfer of the endpoint at an address
NoEvent == [kind |-> "none", addr |-> "none"]
BusReset == [kind |-> "reset", addr |-> "none"]
InComplete(addr) == [kind |-> "in_complete", addr |-> addr]

\* a reset leaves the device in the Default state; a transfer completes on an
\* endpoint that holds a packet
PollEvents(new_state, w, t, h) ==
    {NoEvent}
        \cup (IF new_state = "Default" THEN {BusReset} ELSE {})
        \cup (IF w.pending THEN {InComplete("write_ep")} ELSE {})
        \cup (IF t.pending THEN {InComplete("trace_ep")} ELSE {})
        \cup (IF h.pending THEN {InComplete("hid_ep")} ELSE {})

endpoint_in_complete_any_address(addr, busy) == FALSE

\* CmsisDapV2::endpoint_in_complete(addr)
endpoint_in_complete(addr, busy) == IF addr = "trace_ep" THEN FALSE ELSE busy

\* the class callbacks of one device.poll: CmsisDapV2::reset or
\* CmsisDapV2::endpoint_in_complete
poll_classes(cb, busy) ==
    IF cb.kind = "reset" THEN FALSE
    ELSE IF cb.kind = "in_complete" THEN endpoint_in_complete(cb.addr, busy)
    ELSE busy

\* the endpoint at address addr after the bus event
poll_endpoint(cb, addr, ep) ==
    IF cb.kind = "reset" \/ (cb.kind = "in_complete" /\ cb.addr = addr)
    THEN EpIdle
    ELSE ep

\* what one USB::interrupt call does: the request returned, the state recorded,
\* the endpoints afterwards, and whether it read them or reconfigured the bus
Outcome(req, state, ep, ser, read_cmd, read_serial, configure) ==
    [req |-> req, device_state |-> state, ep |-> ep, ser |-> ser,
     read_cmd |-> read_cmd, read_serial |-> read_serial, configure |-> configure]

interrupt_serial_first(ev, old_state, new_state, ep, ser, vcp_idle) ==
    IF ~ev
    THEN Outcome(NoRequest, old_state, ep, ser, FALSE, FALSE, FALSE)
    ELSE IF old_state # new_state /\ new_state # "Configured"
    THEN Outcome(Suspend, new_state, ep, ser, FALSE, FALSE, FALSE)
    ELSE LET configure == old_state # new_state /\ new_state = "Configured"
             sr == serial_read(ser)
             r == process(ep)
         IN  IF vcp_idle /\ sr.ok
             THEN Outcome(VCPPacket(sr.data), new_state, ep, sr.ser,
                          FALSE, TRUE, configure)
             ELSE Outcome(r.req, new_state, r.ep, ser, TRUE, vcp_idle, configure)

interrupt_stale_state(ev, old_state, new_state, ep, ser, vcp_idle) ==
    IF ~ev
    THEN Outcome(NoRequest, old_state, ep, ser, FALSE, FALSE, FALSE)
    ELSE IF old_state # new_state /\ new_state # "Configured"
    THEN Outcome(Suspend, old_state, ep, ser, FALSE, FALSE, FALSE)
    ELSE LET configure == old_state # new_state /\ new_state = "Configured"
             r == process(ep)
             sr == serial_read(ser)
         IN  IF r.req # NoRequest
             THEN Outcome(r.req, new_state, r.ep, ser, TRUE, FALSE, configure)
             ELSE IF vcp_idle
             THEN Outcome(IF sr.ok THEN VCPPacket(sr.data) ELSE NoRequest,
                          new_state, r.ep, sr.ser, TRUE, TRUE, configure)
             ELSE Outcome(NoRequest, new_state, r.ep, ser, TRUE, FALSE, configure)

interrupt_command_first(ev, old_state, new_state, ep, ser, vcp_idle) ==
    IF ~ev
    THEN Outcome(NoRequest, old_state, ep, ser, FALSE, FALSE, FALSE)
    ELSE LET configure == old_state # new_state /\ new_state = "Configured"
             r == process(ep)
             sr == serial_read(ser)
         IN  IF old_state # new_state /\ new_state # "Configured"
             THEN Outcome(Suspend, new_state, r.ep, ser, TRUE, FALSE, FALSE)
             ELSE IF r.req # NoRequest
             THEN Outcome(r.req, new_state, r.ep, ser, TRUE, FALSE, configure)
             ELSE IF vcp_idle
             THEN Outcome(IF sr.ok THEN VCPPacket(sr.data) ELSE NoRequest,
                          new_state, r.ep, sr.ser, TRUE, TRUE, configure)
             ELSE Outcome(NoRequest, new_state, r.ep, ser, TRUE, FALSE, configure)

interrupt_serial_unasked(ev, old_state, new_state, ep, ser, vcp_idle) ==
    IF ~ev
    THEN Outcome(NoRequest, old_state, ep, ser, FALSE, FALSE, FALSE)
    ELSE IF old_state # new_state /\ new_state # "Configured"
    THEN Outcome(Suspend, new_state, ep, ser, FALSE, FALSE, FALSE)
    ELSE LET configure == old_state # new_state /\ new_state = "Configured"
             r == process(ep)
             sr == serial_read(ser)
         IN  IF r.req # NoRequest
             THEN Outcome(r.req, new_state, r.ep, ser, TRUE, FALSE, configure)
             ELSE Outcome(IF sr.ok THEN VCPPacket(sr.data) ELSE NoRequest,
                          new_state, r.ep, sr.ser, TRUE, TRUE, configure)

interrupt_configure_whenever_configured(ev, old_state, new_state, ep, ser, vcp_idle) ==
    IF ~ev
    THEN Outcome(NoRequest, old_state, ep, ser, FALSE, FALSE, FALSE)
    ELSE IF old_state # new_state /\ new_state # "Configured"
    THEN Outcome(Suspend, new_state, ep, ser, FALSE, FALSE, FALSE)
    ELSE LET configure == new_state = "Configured"
             r == process(ep)
             sr == serial_read(ser)
         IN  IF r.req # NoRequest
             THEN Outcome(r.req, new_state, r.ep, ser, TRUE, FALSE, configure)
             ELSE IF vcp_idle
             THEN Outcome(IF sr.ok THEN VCPPacket(sr.data) ELSE NoRequest,
                          new_state, r.ep, sr.ser, TRUE, TRUE, configure)
             ELSE Outcome(NoRequest, new_state, r.ep, ser, TRUE, FALSE, configure)

\* USB::interrupt(vcp_idle) once initialized; ev is what device.poll returned,
\* old_state the recorded usb.device_state, new_state what device.state() is
interrupt(ev, old_state, new_state, ep, ser, vcp_idle) ==
    IF ~ev
    THEN Outcome(NoRequest, old_state, ep, ser, FALSE, FALSE, FALSE)
    ELSE IF old_state # new_state /\ new_state # "Configured"
    THEN Outcome(Suspend, new_state, ep, ser, FALSE, FALSE, FALSE)
    ELSE LET configure == old_state # new_state /\ new_state = "Configured"
             r == process(ep)
             sr == serial_read(ser)
         IN  IF r.req # NoRequest
             THEN Outcome(r.req, new_state, r.ep, ser, TRUE, FALSE, configure)
             ELSE IF vcp_idle
             THEN Outcome(IF sr.ok THEN VCPPacket(sr.data) ELSE NoRequest,
                          new_state, r.ep, sr.ser, TRUE, TRUE, configure)
             ELSE Outcome(NoRequest, new_state, r.ep, ser, TRUE, FALSE, configure)

\* the record of a call of a USB operation other than interrupt
ucalled(op, len, result, wrote) ==
    [op |-> op, seq |-> 1 - ucall.seq, len |-> len, result |-> result,
     wrote |-> wrote, busy_before |-> trace_busy, state_before |-> usb_state]

USB_setup_again ==
    /\ ~halted
    /\ usb_state' = "Initialized"
    /\ device_state' = dev_state
    /\ ucall' = ucalled("setup", 0, "Ok", FALSE)
    /\ UNCHANGED <<halted, dev_state, read_ep, serial_rx, usb_ret, icall>>
    /\ UNCHANGED usbTxVars
    /\ UNCHANGED nonUsbVars

\* USB::setup: Uninitialized becomes Initialized, with device_state the
\* device's state; from any other state it panics, the state left Initializing
USB_setup ==
    /\ ~halted
    /\ IF usb_state = "Uninitialized"
       THEN /\ usb_state' = "Initialized"
            /\ device_state' = dev_state
            /\ ucall' = ucalled("setup", 0, "Ok", FALSE)
            /\ UNCHANGED halted
       ELSE /\ usb_state' = "Initializing"
            /\ halted' = TRUE
            /\ ucall' = ucalled("setup", 0, "panic", FALSE)
            /\ UNCHANGED device_state
    /\ UNCHANGED <<dev_state, read_ep, serial_rx, usb_ret, icall>>
    /\ UNCHANGED usbTxVars
    /\ UNCHANGED nonUsbVars

\* USB::interrupt(vcp_idle) before setup: as_initialized_mut panics
USB_interrupt_uninitialized ==
    /\ ~halted
    /\ usb_state # "Initialized"
    /\ halted' = TRUE
    /\ ucall' = ucalled("interrupt", 0, "panic", FALSE)
    /\ UNCHANGED <<usb_state, dev_state, device_state, read_ep, serial_rx, usb_ret, icall>>
    /\ UNCHANGED usbTxVars
    /\ UNCHANGED nonUsbVars

\* USB::interrupt(vcp_idle): device.poll handles the bus events, which may
\* move the device to a state among `states`, and reports whether a class has
\* work
USB_interrupt_among(vcp_idle, states) ==
    /\ ~halted
    /\ usb_state = "Initialized"
    /\ \E ev \in BOOLEAN, new_state \in states :
        \E cb \in PollEvents(new_state, write_ep, trace_ep, hid_ep) :
        \E o \in {interrupt(ev, device_state, new_state, read_ep, serial_rx, vcp_idle)} :
              /\ trace_busy' = poll_classes(cb, trace_busy)
              /\ write_ep' = poll_endpoint(cb, "write_ep", write_ep)
              /\ trace_ep' = poll_endpoint(cb, "trace_ep", trace_ep)
              /\ hid_ep' = poll_endpoint(cb, "hid_ep", hid_ep)
              /\ dev_state' = new_state
              /\ device_state' = o.device_state
              /\ read_ep' = o.ep
              /\ serial_rx' = o.ser
              /\ usb_ret' = o.req
              /\ icall' = [op |-> "interrupt", seq |-> 1 - icall.seq,
                           vcp_idle |-> vcp_idle, ev |-> ev, cb |-> cb,
                           dev_before |-> dev_state, old_state |-> device_state,
                           new_state |-> new_state,
                           pending |-> read_ep, serial_pending |-> serial_rx,
                           read_cmd |-> o.read_cmd, read_serial |-> o.read_serial,
                           configure |-> o.configure]
    /\ UNCHANGED <<usb_state, halted, ucall>>
    /\ UNCHANGED nonUsbVars

USB_interrupt(vcp_idle) == USB_interrupt_among(vcp_idle, DeviceStates)

\* the host sends a command packet to the bulk-out endpoint of the configured device
HostSendsCommand(pkt) ==
    /\ ~halted
    /\ usb_state = "Initialized"
    /\ dev_state = "Configured"
    /\ Len(read_ep) < MaxPending
    /\ read_ep' = Append(read_ep, pkt)
    /\ UNCHANGED <<usb_state, halted, dev_state, device_state, serial_rx, usb_ret, icall>>
    /\ UNCHANGED <<usbTxVars, ucall>>
    /\ UNCHANGED nonUsbVars

\* the host sends serial data to the configured device
HostSendsSerial(pkt) ==
    /\ ~halted
    /\ usb_state = "Initialized"
    /\ dev_state = "Configured"
    /\ Len(serial_rx) < MaxPending
    /\ serial_rx' = Append(serial_rx, pkt)
    /\ UNCHANGED <<usb_state, halted, dev_state, device_state, read_ep, usb_ret, icall>>
    /\ UNCHANGED <<usbTxVars, ucall>>
    /\ UNCHANGED nonUsbVars

\* the operations that need the initialized dispatcher and are not interrupt
UsbOperations == {"dap1_reply", "dap2_reply", "dap2_swo_is_busy", "dap2_stream_swo",
                  "serial_line_encoding", "serial_return"}

\* one of them before setup: as_initialized / as_initialized_mut panics
USB_call_uninitialized(op) ==
    /\ ~halted
    /\ usb_state # "Initialized"
    /\ halted' = TRUE
    /\ ucall' = ucalled(op, 0, "panic", FALSE)
    /\ UNCHANGED <<usb_state, dev_state, device_state, read_ep, serial_rx, usb_ret, icall>>
    /\ UNCHANGED usbTxVars
    /\ UNCHANGED nonUsbVars

\* USB::dap2_reply(data): expect() panics on an error
USB_dap2_reply(data) ==
    /\ ~halted
    /\ usb_state = "Initialized"
    /\ \E ok \in BOOLEAN :
        \E w \in {write_packet(write_ep, trace_busy, data, ok)} :
              /\ write_ep' = w.ep
              /\ trace_busy' = w.busy
              /\ halted' = (w.result # "Ok")
              /\ ucall' = ucalled("dap2_reply", Len(data), w.result, w.wrote)
    /\ UNCHANGED <<usb_state, dev_state, device_state, read_ep, serial_rx, usb_ret, icall>>
    /\ UNCHANGED <<trace_ep, hid_ep>>
    /\ UNCHANGED nonUsbVars

\* USB::dap2_swo_is_busy
USB_dap2_swo_is_busy ==
    /\ ~halted
    /\ usb_state = "Initialized"
    /\ ucall' = ucalled("dap2_swo_is_busy", 0, IF trace_busy THEN "true" ELSE "false", FALSE)
    /\ UNCHANGED <<usb_state, halted, dev_state, device_state, read_ep, serial_rx,
                   usb_ret, icall>>
    /\ UNCHANGED usbTxVars
    /\ UNCHANGED nonUsbVars

\* USB::dap2_stream_swo(data): expect() panics on an error
USB_dap2_stream_swo(data) ==
    /\ ~halted
    /\ usb_state = "Initialized"
    /\ \E ok \in BOOLEAN :
        \E w \in {trace_write(trace_ep, trace_busy, data, ok)} :
              /\ trace_ep' = w.ep
              /\ trace_busy' = w.busy
              /\ halted' = (w.result # "Ok")
              /\ ucall' = ucalled("dap2_stream_swo", Len(data), w.result, w.wrote)
    /\ UNCHANGED <<usb_state, dev_state, device_state, read_ep, serial_rx, usb_ret, icall>>
    /\ UNCHANGED <<write_ep, hid_ep>>
    /\ UNCHANGED nonUsbVars

----------------------------------------------------------------------------
(* firmware/src/app.rs *)

\* Request::DAP1Command((report, n)); data is report[..n]
DAP1Command(data) == [tag |-> "DAP1Command", data |-> data]

Zeros(n) == [i \in 1..n |-> 0]

\* the array of a request: the bytes received, then the zeros it was created with
report_of(data, size) == data \o Zeros(size - Len(data))

\* the n bytes the DAP engine answers with, and the n trace bytes it has buffered
Reply(n) == [i \in 1..n |-> 100 + (i % 100)]
Trace(n) == [i \in 1..n |-> 200 + (i % 50)]

\* lengths of the engine's replies and of what read_swo returns
ReplyLens == {0, 1, DAP1_PACKET_SIZE, DAP2_PACKET_SIZE}
SwoLens == {0, 1}

\* the replies the engine can write into a buffer of cap bytes
EngineReplies(cap) == {Reply(n) : n \in {m \in ReplyLens : m <= cap}}

\* buf after `data` was written to its first bytes
Filled(buf, data) == data \o SubSeq(buf, Len(data) + 1, Len(buf))

\* one call of dap.process_command(report, rbuf, version) and the length it returned
Invocation(version, data, cap, len) ==
    [version |-> version, data |-> data, cap |-> cap, len |-> len]

\* one call of usb.dap1_reply / usb.dap2_reply
Forwarded(ep, data) == [ep |-> ep, data |-> data]

\* what App::process_request did: resp_buf and the reply endpoints afterwards,
\* the engine calls and the reply calls it made, and how it ended
Routed(buf, w_ep, h_ep, engine, replies, suspended, panicked) ==
    [buf |-> buf, w_ep |-> w_ep, h_ep |-> h_ep, engine |-> engine,
     replies |-> replies, suspended |-> suspended, panicked |-> panicked]

process_request_whole_buffer(req, buf, w_ep, h_ep, busy, reply, ok) ==
    IF req.tag \in {"DAP1Command", "DAP2Command"}
    THEN LET v1 == req.tag = "DAP1Command"
             report == report_of(req.data, IF v1 THEN DAP1_PACKET_SIZE ELSE DAP2_PACKET_SIZE)
             buf2 == Filled(buf, reply)
             len == Len(reply)
             w == IF v1 THEN dap1_write_packet(h_ep, busy, SubSeq(buf2, 1, len), ok)
                        ELSE write_packet(w_ep, busy, SubSeq(buf2, 1, len), ok)
         IN  Routed(buf2,
                    IF len > 0 /\ ~v1 THEN w.ep ELSE w_ep,
                    IF len > 0 /\ v1 THEN w.ep ELSE h_ep,
                    <<Invocation(IF v1 THEN "V1" ELSE "V2",
                                 SubSeq(report, 1, Len(req.data)), Len(buf), len)>>,
                    IF len > 0
                    THEN <<Forwarded(IF v1 THEN "hid_ep" ELSE "write_ep",
                                     SubSeq(buf2, 1, len))>>
                    ELSE << >>,
                    FALSE, len > 0 /\ w.result # "Ok")
    ELSE Routed(buf, w_ep, h_ep, << >>, << >>, req.tag = "Suspend", FALSE)

\* App::process_request(req); reply is what the engine writes to the buffer
\* it is given, ok whether the reply endpoint takes the packet
process_request(req, buf, w_ep, h_ep, busy, reply, ok) ==
    IF req.tag = "DAP1Command"
    THEN LET report == report_of(req.data, DAP1_PACKET_SIZE)
             rbuf == SubSeq(buf, 1, DAP1_PACKET_SIZE)
             buf2 == Filled(buf, reply)
             len == Len(reply)
             w == dap1_write_packet(h_ep, busy, SubSeq(buf2, 1, len), ok)
         IN  Routed(buf2, w_ep, IF len > 0 THEN w.ep ELSE h_ep,
                    <<Invocation("V1", SubSeq(report, 1, Len(req.data)), Len(rbuf), len)>>,
                    IF len > 0 THEN <<Forwarded("hid_ep", SubSeq(buf2, 1, len))>> ELSE << >>,
                    FALSE, len > 0 /\ w.result # "Ok")
    ELSE IF req.tag = "DAP2Command"
    THEN LET report == report_of(req.data, DAP2_PACKET_SIZE)
             buf2 == Filled(buf, reply)
             len == Len(reply)
             w == write_packet(w_ep, busy, SubSeq(buf2, 1, len), ok)
         IN  Routed(buf2, IF len > 0 THEN w.ep ELSE w_ep, h_ep,
                    <<Invocation("V2", SubSeq(report, 1, Len(req.data)), Len(buf), len)>>,
                    IF len > 0 THEN <<Forwarded("write_ep", SubSeq(buf2, 1, len))>> ELSE << >>,
                    FALSE, len > 0 /\ w.result # "Ok")
    ELSE Routed(buf, w_ep, h_ep, << >>, << >>, req.tag = "Suspend", FALSE)

\* what the trace pumping of App::poll did
Pumped(buf, ep, busy, read, streamed, panicked) ==
    [buf |-> buf, ep |-> ep, busy |-> busy, read |-> read, streamed |-> streamed,
     panicked |-> panicked]

trace_pump_while_busy(streaming, busy, buf, swo, ep, ok) ==
    IF streaming
    THEN LET buf2 == Filled(buf, swo)
             len == Len(swo)
             w == trace_write(ep, busy, SubSeq(buf2, 1, len), ok)
         IN  IF len > 0
             THEN Pumped(buf2, w.ep, w.busy, TRUE, TRUE, w.result # "Ok")
             ELSE Pumped(buf2, ep, busy, TRUE, FALSE, FALSE)
    ELSE Pumped(buf, ep, busy, FALSE, FALSE, FALSE)

\* App::poll, the trace pumping: swo is what dap.read_swo writes to resp_buf,
\* ok whether the trace endpoint takes the packet
trace_pump(streaming, busy, buf, swo, ep, ok) ==
    IF streaming /\ ~busy
    THEN LET buf2 == Filled(buf, swo)
             len == Len(swo)
             w == trace_write(ep, busy, SubSeq(buf2, 1, len), ok)
         IN  IF len > 0
             THEN Pumped(buf2, w.ep, w.busy, TRUE, TRUE, w.result # "Ok")
             ELSE Pumped(buf2, ep, busy, TRUE, FALSE, FALSE)
    ELSE Pumped(buf, ep, busy, FALSE, FALSE, FALSE)

\* App::poll, its first statement once usb.interrupt has returned req
poll_request_forgetting(req, buf, w_ep, h_ep, busy, reply, ok) ==
    Routed(buf, w_ep, h_ep, << >>, << >>, FALSE, FALSE)

poll_request(req, buf, w_ep, h_ep, busy, reply, ok) ==
    IF req = NoRequest
    THEN Routed(buf, w_ep, h_ep, << >>, << >>, FALSE, FALSE)
    ELSE process_request(req, buf, w_ep, h_ep, busy, reply, ok)

poll_swo_else(req, r, streaming, busy, swo, ep, ok) ==
    IF r.panicked \/ req # NoRequest
    THEN Pumped(r.buf, ep, busy, FALSE, FALSE, FALSE)
    ELSE trace_pump(streaming, busy, r.buf, swo, ep, ok)

\* App::poll, its second statement, reached unless the first one panicked;
\* r is what the first one did
poll_swo(req, r, streaming, busy, swo, ep, ok) ==
    IF r.panicked
    THEN Pumped(r.buf, ep, busy, FALSE, FALSE, FALSE)
    ELSE trace_pump(streaming, busy, r.buf, swo, ep, ok)

\* the bus states of the device while it transmits: reset, and configured
TxDeviceStates == {"Default", "Configured"}

\* the reports the host sends to the version 1 function (one of them empty)
ReportPackets == {<< >>, <<5>>}

\* the requests handed to process_request
RouterRequests ==
    {Suspend, VCPPacket(<<3>>)}
        \cup {DAP1Command(d) : d \in {<<1>>, <<1, 2>>}}
        \cup {DAP2Command(d) : d \in {<<1>>, <<1, 2>>}}

\* what the engine answers and buffers in the main loop: nothing, or one byte
PollReplies == {Reply(n) : n \in {0, 1}}
PollTraces == {Trace(n) : n \in SwoLens}

\* the values an input is drawn from: all of them where the code uses the
\* input, one of them where it does not
Relevant(used, values, unused) == IF used THEN values ELSE {unused}

\* the record of one App::poll or one process_request
polled(op, req, cb, r, busy, streaming, pu) ==
    [op |-> op, seq |-> 1 - pcall.seq, pending |-> read_ep, req |-> req, cb |-> cb,
     engine |-> r.engine, replies |-> r.replies, suspended |-> r.suspended,
     busy_before |-> trace_busy, busy_seen |-> busy,
     streaming |-> streaming, swo_read |-> pu.read, streamed |-> pu.streamed,
     panicked |-> r.panicked \/ pu.panicked]

\* the host sends a report to the version 1 function of the configured device
HostSendsReport(pkt) ==
    /\ ~halted
    /\ usb_state = "Initialized"
    /\ dev_state = "Configured"
    /\ Len(hid_rx) < MaxPending
    /\ hid_rx' = Append(hid_rx, pkt)
    /\ UNCHANGED <<uartVars, usbVars, appVars, dfuVars, dmaVars, bspVars>>

\* App::process_request(req)
App_process_request(req) ==
    /\ ~halted
    /\ usb_state = "Initialized"
    /\ \E reply \in EngineReplies(IF req.tag = "DAP1Command" THEN DAP1_PACKET_SIZE
                                                             ELSE DAP2_PACKET_SIZE),
          ok \in BOOLEAN :
        \E r \in {process_request(req, resp_buf, write_ep, hid_ep, trace_busy, reply, ok)} :
          LET pu == Pumped(r.buf, trace_ep, trace_busy, FALSE, FALSE, FALSE)
          IN  /\ resp_buf' = r.buf
              /\ write_ep' = r.w_ep
              /\ hid_ep' = r.h_ep
              /\ halted' = r.panicked
              /\ pcall' = polled("process_request", req, NoEvent, r, trace_busy, FALSE, pu)
    /\ UNCHANGED <<usb_state, dev_state, device_state, read_ep, serial_rx, usb_ret,
                   icall, trace_busy, trace_ep, ucall>>
    /\ UNCHANGED nonAppVars

\* one iteration of the main loop, App::poll: usb.interrupt(false), then
\* process_request for the request it returned, then the trace pumping.  The
\* environment: the bus (ev, new_state, cb), the DAP engine (reply, streaming,
\* swo) and the endpoints (okw, okt).  pcall records the whole iteration, its
\* call of interrupt included; icall keeps the calls made from outside App.
\* o, r and pu are what interrupt, process_request and the pumping did.
App_poll_among(streamings) ==
    /\ ~halted
    /\ usb_state = "Initialized"
    /\ \E ev \in BOOLEAN, new_state \in TxDeviceStates :
        \E cb \in PollEvents(new_state, write_ep, trace_ep, hid_ep) :
        \E o \in {interrupt(ev, device_state, new_state, read_ep, serial_rx, FALSE)},
           busy \in {poll_classes(cb, trace_busy)} :
        \E reply \in Relevant(o.req.tag = "DAP2Command", PollReplies, << >>) :
        \E okw \in Relevant(Len(reply) > 0, BOOLEAN, TRUE) :
        \E streaming \in streamings :
        \E swo \in Relevant(streaming, PollTraces, << >>) :
        \E okt \in Relevant(Len(swo) > 0, BOOLEAN, TRUE) :
        \E r \in {poll_request(o.req, resp_buf, poll_endpoint(cb, "write_ep", write_ep),
                                poll_endpoint(cb, "hid_ep", hid_ep), busy, reply, okw)} :
        \E pu \in {poll_swo(o.req, r, streaming, busy, swo,
                             poll_endpoint(cb, "trace_ep", trace_ep), okt)} :
              /\ dev_state' = new_state
              /\ device_state' = o.device_state
              /\ read_ep' = o.ep
              /\ serial_rx' = o.ser
              /\ usb_ret' = o.req
              /\ resp_buf' = pu.buf
              /\ write_ep' = r.w_ep
              /\ hid_ep' = r.h_ep
              /\ trace_ep' = pu.ep
              /\ trace_busy' = pu.busy
              /\ halted' = (r.panicked \/ pu.panicked)
              /\ pcall' = polled("poll", o.req, cb, r, busy, streaming, pu)
    /\ UNCHANGED <<usb_state, icall, ucall>>
    /\ UNCHANGED nonAppVars

\* App::poll, dap.is_swo_streaming() giving either answer
App_poll == App_poll_among(BOOLEAN)

----------------------------------------------------------------------------
(* firmware/src/usb/dfu.rs *)

DFU_DETACH == 0
DFU_GETSTATUS == 3

\* bRequest of a control request: the seven DFU requests and one that is none
Requests == 0..7

\* usb_device::control::RequestType and Recipient
RequestTypes == {"Standard", "Class", "Vendor"}
Recipients == {"Device", "Interface", "Endpoint"}

\* the interfaces USB::setup allocates, which wIndex names
Interfaces == {"serial", "dap_v1", "dap_v2", "dfu"}

\* xfer.request()
ControlRequests ==
    [request_type : RequestTypes, recipient : Recipients, index : Interfaces,
     request : Requests]

\* what became of the transfer: left to the other classes and the device,
\* accepted with data, or rejected
Unanswered == [answer |-> "none", data |-> << >>]
Accepted(data) == [answer |-> "accept", data |-> data]
Rejected == [answer |-> "reject", data |-> << >>]

\* the request is a class request to the interface of this function
ForInterface(interface, req) ==
    /\ req.request_type = "Class"
    /\ req.recipient = "Interface"
    /\ req.index = interface

\* DfuRuntime::control_in
control_in(interface, req) ==
    IF ~ForInterface(interface, req)
    THEN Unanswered
    ELSE IF req.request = DFU_GETSTATUS
    THEN Accepted(Zeros(6))
    ELSE Rejected

\* DfuRuntime::control_out: the arm of DFU_DETACH is empty
control_out(interface, req) ==
    IF ~ForInterface(interface, req)
    THEN Unanswered
    ELSE IF req.request = DFU_DETACH
    THEN Unanswered
    ELSE Rejected

\* the record of a control transfer offered to the function
offered(dir, req, answer) == [dir |-> dir, req |-> req, answer |-> answer]

\* the device stack calls DfuRuntime::control_in(xfer)
Dfu_control_in(req) ==
    /\ dfu_xfer' = offered("in", req, control_in(dfu.interface, req))
    /\ UNCHANGED dfu
    /\ UNCHANGED nonDfuVars

\* the device stack calls DfuRuntime::control_out(xfer)
Dfu_control_out(req) ==
    /\ dfu_xfer' = offered("out", req, control_out(dfu.interface, req))
    /\ UNCHANGED dfu
    /\ UNCHANGED nonDfuVars

----------------------------------------------------------------------------
(* hpm-probe-bsp/src/spi.rs: clock selection *)

\* Option<SPIPrescaler>
NoPrescaler == "None"
SPIPrescalers == <<"Div2", "Div4", "Div8", "Div16", "Div32", "Div64", "Div128", "Div256">>

calculate_prescaler_strictly_below(clock, max_frequency) ==
    IF clock = 0 THEN NoPrescaler
    ELSE IF (clock \div 4) < max_frequency THEN "Div2"
    ELSE IF (clock \div 8) < max_frequency THEN "Div4"
    ELSE IF (clock \div 16) < max_frequency THEN "Div8"
    ELSE IF (clock \div 32) < max_frequency THEN "Div16"
    ELSE IF (clock \div 64) < max_frequency THEN "Div32"
    ELSE IF (clock \div 128) < max_frequency THEN "Div64"
    ELSE IF (clock \div 256) < max_frequency THEN "Div128"
    ELSE IF (clock \div 512) < max_frequency THEN "Div256"
    ELSE NoPrescaler

\* Spi::calculate_prescaler(max_frequency), clock being self.base_clock; the
\* divisions are those of u32
calculate_prescaler(clock, max_frequency) ==
    IF clock = 0 THEN NoPrescaler
    ELSE IF (clock \div 4) <= max_frequency THEN "Div2"
    ELSE IF (clock \div 8) <= max_frequency THEN "Div4"
    ELSE IF (clock \div 16) <= max_frequency THEN "Div8"
    ELSE IF (clock \div 32) <= max_frequency THEN "Div16"
    ELSE IF (clock \div 64) <= max_frequency THEN "Div32"
    ELSE IF (clock \div 128) <= max_frequency THEN "Div64"
    ELSE IF (clock \div 256) <= max_frequency THEN "Div128"
    ELSE IF (clock \div 512) <= max_frequency THEN "Div256"
    ELSE NoPrescaler

\* the base clocks and the requested frequencies tried: every small value,
\* and the clocks the board runs at
MaxBaseClock == 1100
MaxFrequency == 3
BaseClocks == 0..MaxBaseClock \cup {80000000}
MaxFrequencies == 0..MaxFrequency \cup {1500000, 20000000}

\* Spi::calculate_prescaler(max_frequency)
Spi_calculate_prescaler(max_frequency) ==
    /\ ~prescaler.called
    /\ prescaler' = [called |-> TRUE, max_frequency |-> max_frequency,
                     ret |-> calculate_prescaler(base_clock, max_frequency)]
    /\ UNCHANGED <<base_clock, clocking>>
    /\ UNCHANGED nonPresVars

----------------------------------------------------------------------------
(* hpm-probe-bsp/src/spi.rs: the clock of the transaction layer *)

\* Clocks::get_clk_spi1_freq, Clocks::get_clk_spi2_freq: the frequency of the
\* clock domain of SPI1, of SPI2
get_clk_spi1_freq(clocks) == clocks.spi1
get_clk_spi2_freq(clocks) == clocks.spi2

\* Spi<1>::set_base_clock, Spi<2>::set_base_clock: the value stored
set_base_clock(instance, clocks) ==
    IF instance = 1 THEN get_clk_spi2_freq(clocks) ELSE get_clk_spi1_freq(clocks)

\* (base_clock / 1_500_000) / 2 - 1 in u32: the subtraction underflows when
\* the quotient is 0
sclk_div_quotient(clock) == (clock \div 1500000) \div 2
sclk_div(clock) ==
    [underflow |-> sclk_div_quotient(clock) = 0,
     value |-> IF sclk_div_quotient(clock) = 0 THEN 255
               ELSE (sclk_div_quotient(clock) - 1) % 256]

\* what an underflow of u32 does: a panic where the build checks overflow,
\* 0xFFFFFFFF where it does not, of which the field keeps the low 8 bits
Underflows == {"panic", "wrap"}

\* SPIPrescaler as u32
prescaler_as_u32(p) == CHOOSE i \in 0..7 : SPIPrescalers[i + 1] = p

\* Spi::setup_swd and Spi::setup_jtag: the registers written
setup_swd(regs, clock) ==
    [regs EXCEPT !.sclk_div = sclk_div(clock).value, !.csht = 12 - 1,
                 !.cs2sclk = 4 - 1, !.datalen = 8 - 1, !.cpol = "High"]
setup_jtag(regs, clock) ==
    [regs EXCEPT !.sclk_div = sclk_div(clock).value, !.csht = 12 - 1,
                 !.cs2sclk = 4 - 1, !.datalen = 8 - 1, !.cpol = "Low",
                 !.dmaen = TRUE]

\* Spi::set_prescaler(prescaler): the body is a comment, nothing is written
set_prescaler(regs, p) == regs

\* the clocks the tree may give the domains of SPI1 and SPI2, the value of
\* TIMING.SCLK_DIV before the first setup, and the most calls in a row
SpiClocks == {0, 2999999, 3000000, 80000000}
ResetDividers == {0, 16}
MaxClockCalls == 3

Instances == {1, 2}

\* a call is noted
clocked(op, instance, p, underflow) ==
    [op |-> op, instance |-> instance, prescaler |-> p, underflow |-> underflow,
     n |-> clocking.call.n + 1]

\* Spi<N>::set_base_clock(clocks)
Spi_set_base_clock(instance) ==
    /\ ~clocking.panicked
    /\ clocking' = [clocking EXCEPT
                       !.base_clock[instance] = set_base_clock(instance, clocking.clocks),
                       !.call = clocked("set_base_clock", instance, NoPrescaler, FALSE)]
    /\ UNCHANGED <<base_clock, prescaler>>
    /\ UNCHANGED nonPresVars

\* a setup: the divider is computed, and the registers are written unless
\* the computation panicked
Spi_setup(op, instance, regs) ==
    /\ ~clocking.panicked
    /\ \E d \in {sclk_div(clocking.base_clock[instance])} :
        \E outcome \in IF d.underflow THEN Underflows ELSE {"ok"} :
          clocking' = [clocking EXCEPT
                          !.regs[instance] = IF outcome = "panic" THEN @ ELSE regs,
                          !.panicked = (outcome = "panic"),
                          !.call = clocked(op, instance, NoPrescaler, d.underflow)]
    /\ UNCHANGED <<base_clock, prescaler>>
    /\ UNCHANGED nonPresVars

\* Spi::setup_swd()
Spi_setup_swd(instance) ==
    Spi_setup("setup_swd", instance,
              setup_swd(clocking.regs[instance], clocking.base_clock[instance]))

\* Spi::setup_jtag()
Spi_setup_jtag(instance) ==
    Spi_setup("setup_jtag", instance,
              setup_jtag(clocking.regs[instance], clocking.base_clock[instance]))

\* Spi::set_prescaler(prescaler)
Spi_set_prescaler(instance, p) ==
    /\ ~clocking.panicked
    /\ clocking' = [clocking EXCEPT
                       !.regs[instance] = set_prescaler(clocking.regs[instance], p),
                       !.call = clocked("set_prescaler", instance, p, FALSE)]
    /\ UNCHANGED <<base_clock, prescaler>>
    /\ UNCHANGED nonPresVars

----------------------------------------------------------------------------
(* hpm-probe-bsp/src/spi.rs: the primitives of the transaction layer *)

\* one step of a primitive
I(op, a, b) == [op |-> op, a |-> a, b |-> b]

\* modify_reg!(TRANSFMT, DATALEN: bits - 1); modify_reg!(TRANSCTRL,
\* WRTRANCNT: count, RDTRANCNT: count); write_reg!(CMD, 0xff)
start_transfer(bits, count) == I("start_transfer", bits - 1, count)

\* Spi::write_dr_u8(data), Spi::write_dr_u16(data)
write_dr_u8(data) == I("write_dr", data % 256, 0)
write_dr_u16(data) == I("write_dr", data % 65536, 0)

\* Spi::read_dr_u8() discarded, and (read_dr_u8() as u32) << shift kept in the result
read_dr_u8 == I("read_dr", 0, 0)
read_dr_u8_into(shift) == I("read_dr", shift, 1)

\* Spi::wait_rxne and the return
wait_rxne == I("wait_rxne", 0, 0)
return == I("return", 0, 0)

\* the return of a pair: (data, second)
return_pair(second) == I("return", second, 0)

\* Spi::tx4, tx8, tx16
tx4(data) == <<start_transfer(4, 0), write_dr_u8(data), wait_rxne, return>>
tx8(data) == <<start_transfer(8, 0), write_dr_u8(data), wait_rxne, return>>
tx16(data) == <<start_transfer(16, 0), write_dr_u16(data), wait_rxne, return>>

swd_wdata_phase_high_byte_first(data, parity) ==
    <<start_transfer(8, 4)>>
    \o [i \in 1..4 |-> write_dr_u8((data \div 2^((4 - i) * 8)) % 256)]
    \o <<write_dr_u8(parity % 2)>>
    \o [i \in 1..5 |-> read_dr_u8]
    \o <<return>>

\* Spi::swd_wdata_phase
swd_wdata_phase(data, parity) ==
    <<start_transfer(8, 4)>>
    \o [i \in 1..4 |-> write_dr_u8((data \div 2^((i - 1) * 8)) % 256)]
    \o <<write_dr_u8(parity % 2)>>
    \o [i \in 1..5 |-> read_dr_u8]
    \o <<return>>

\* Spi::rx4, rx5
rx4 == <<start_transfer(4, 0), write_dr_u8(0), wait_rxne, read_dr_u8_into(0), return>>
rx5 == <<start_transfer(5, 0), write_dr_u8(0), wait_rxne, read_dr_u8_into(0), return>>

\* pin.spi1_clk.set_low(); delay.delay_ticks(5); pin.spi1_clk.set_high();
\* delay.delay_ticks(5)
clock_period ==
    <<I("set_low", 0, 0), I("delay_ticks", 5, 0), I("set_high", 0, 0), I("delay_ticks", 5, 0)>>

swd_rdata_phase_one_period ==
    <<start_transfer(8, 4 - 1)>>
    \o [i \in 1..4 |-> write_dr_u8(255)]
    \o <<read_dr_u8_into(0), read_dr_u8_into(8), read_dr_u8_into(16)>>
    \o <<wait_rxne>>
    \o <<I("swd_clk_direct", 0, 0)>>
    \o clock_period
    \o <<I("swd_clk_spi", 0, 0)>>
    \o <<read_dr_u8_into(24)>>
    \o <<return_pair(0)>>

\* Spi::swd_rdata_phase
swd_rdata_phase ==
    <<start_transfer(8, 4 - 1)>>
    \o [i \in 1..4 |-> write_dr_u8(255)]
    \o <<read_dr_u8_into(0), read_dr_u8_into(8), read_dr_u8_into(16)>>
    \o <<wait_rxne>>
    \o <<I("swd_clk_direct", 0, 0)>>
    \o clock_period
    \o clock_period
    \o <<I("swd_clk_spi", 0, 0)>>
    \o <<read_dr_u8_into(24)>>
    \o <<return_pair(0)>>

\* most fixed-width exchanges called in a row, most phases called in a row
MaxExchangeCalls == 2
MaxPhaseCalls == 1

\* the arguments the primitives are called with, the words the target shifts
\* in, and what a read of the empty receive FIFO may give
TxData == {5, 165, 4660}
WData == {305419896, 2147483647}
Parities == {1, 2}
RxWords == {17, 88}
EmptyReads == {0, 255}

FixedWidth == {"tx4", "tx8", "tx16", "rx4", "rx5"}

\* the step the processor is at
Cur == sp.prog[sp.pc]
At(op) == sp.pc > 0 /\ Cur.op = op

\* the step is taken and noted
stepped ==
    [sp EXCEPT !.pc = sp.pc + 1,
               !.events = Append(sp.events, [op |-> Cur.op, a |-> Cur.a])]

\* a primitive is called
Spi_call(fn, prog, data, parity) ==
    /\ sp.pc = 0
    /\ sp' = [fn |-> fn, data |-> data, parity |-> parity, n |-> sp.n + 1, pc |-> 1,
              prog |-> prog, acc |-> 0, ret |-> 0, ret_parity |-> 0,
              returned |-> FALSE,
              pushed |-> << >>, sent |-> << >>, received |-> 0, reads |-> << >>,
              events |-> << >>,
              clean |-> (spi.tx = << >> /\ spi.rx = << >>),
              fixed_only |-> (sp.fixed_only /\ fn \in FixedWidth)]
    /\ UNCHANGED <<spi, clk>>
    /\ UNCHANGED nonSpiVars

Spi_tx4(data) == Spi_call("tx4", tx4(data), data, 0)
Spi_tx8(data) == Spi_call("tx8", tx8(data), data, 0)
Spi_tx16(data) == Spi_call("tx16", tx16(data), data, 0)
Spi_swd_wdata_phase(data, parity) ==
    Spi_call("swd_wdata_phase", swd_wdata_phase(data, parity), data, parity)
Spi_rx4 == Spi_call("rx4", rx4, 0, 0)
Spi_rx5 == Spi_call("rx5", rx5, 0, 0)
Spi_swd_rdata_phase == Spi_call("swd_rdata_phase", swd_rdata_phase, 0, 0)

\* the frame width and the transfer counts are written, the command starts
\* the transfer
Spi_start_transfer ==
    /\ At("start_transfer")
    /\ spi' = [spi EXCEPT !.datalen = Cur.a, !.wrtrancnt = Cur.b, !.rdtrancnt = Cur.b]
    /\ sp' = stepped
    /\ UNCHANGED clk
    /\ UNCHANGED nonSpiVars

\* write_reg!(spi, self.spi, DATA, data as u32): the word enters the transmit FIFO
Spi_write_dr ==
    /\ At("write_dr")
    /\ spi' = [spi EXCEPT !.tx = Append(spi.tx, [word |-> Cur.a, call |-> sp.n,
                                                 k |-> Len(sp.pushed) + 1])]
    /\ sp' = [stepped EXCEPT !.pushed = Append(sp.pushed, Cur.a)]
    /\ UNCHANGED clk
    /\ UNCHANGED nonSpiVars

\* read_reg!(spi, self.spi, DATA) as u8: the oldest word of the receive FIFO is
\* taken; when the FIFO is empty nothing is taken and the value is unspecified
Spi_read_dr ==
    /\ At("read_dr")
    /\ \E v \in IF spi.rx = << >> THEN EmptyReads ELSE {Head(spi.rx).word} :
          sp' = [stepped EXCEPT
                    !.acc = IF Cur.b = 1 THEN sp.acc + (v % 256) * 2^Cur.a ELSE sp.acc,
                    !.reads = Append(sp.reads,
                                     [call |-> IF spi.rx = << >> THEN 0
                                               ELSE Head(spi.rx).call,
                                      k |-> IF spi.rx = << >> THEN 0
                                            ELSE Head(spi.rx).k,
                                      word |-> IF Cur.b = 1 THEN v % 256 ELSE 0])]
    /\ spi' = [spi EXCEPT !.rx = IF spi.rx = << >> THEN << >> ELSE Tail(spi.rx)]
    /\ UNCHANGED clk
    /\ UNCHANGED nonSpiVars

\* while STATUS.RXEMPTY == 1 {}: left when the receive FIFO holds a word
Spi_wait_rxne ==
    /\ At("wait_rxne")
    /\ spi.rx # << >>
    /\ sp' = stepped
    /\ UNCHANGED <<spi, clk>>
    /\ UNCHANGED nonSpiVars

\* pin.swd_clk_direct(): the clock line is driven as a plain output
Pins_swd_clk_direct ==
    /\ At("swd_clk_direct")
    /\ clk' = [clk EXCEPT !.control = "direct"]
    /\ sp' = stepped
    /\ UNCHANGED spi
    /\ UNCHANGED nonSpiVars

\* pin.spi1_clk.set_low()
Pin_set_low ==
    /\ At("set_low")
    /\ clk' = [clk EXCEPT !.level = "low"]
    /\ sp' = stepped
    /\ UNCHANGED spi
    /\ UNCHANGED nonSpiVars

\* pin.spi1_clk.set_high()
Pin_set_high ==
    /\ At("set_high")
    /\ clk' = [clk EXCEPT !.level = "high"]
    /\ sp' = stepped
    /\ UNCHANGED spi
    /\ UNCHANGED nonSpiVars

\* delay.delay_ticks(5): the level is held for that many ticks of the timer
Delay_delay_ticks ==
    /\ At("delay_ticks")
    /\ clk' = [clk EXCEPT !.held = Cur.a]
    /\ sp' = stepped
    /\ UNCHANGED spi
    /\ UNCHANGED nonSpiVars

\* pin.swd_clk_spi(): the clock line is given back to the shift register
Pins_swd_clk_spi ==
    /\ At("swd_clk_spi")
    /\ clk' = [clk EXCEPT !.control = "spi"]
    /\ sp' = stepped
    /\ UNCHANGED spi
    /\ UNCHANGED nonSpiVars

\* the primitive returns what it accumulated, and swd_rdata_phase the pair
\* of it and the constant written in the source
Spi_return ==
    /\ At("return")
    /\ sp' = [sp EXCEPT !.pc = 0, !.ret = sp.acc, !.ret_parity = Cur.a,
                         !.returned = TRUE]
    /\ UNCHANGED <<spi, clk>>
    /\ UNCHANGED nonSpiVars

\* the shift register, running beside the processor: the oldest word of the
\* transmit FIFO is shifted out and the word shifted in for it enters the
\* receive FIFO, both of the width of the frame
SpiShift ==
    /\ spi.tx # << >>
    /\ \E r \in RxWords :
        \E out \in {Head(spi.tx).word % 2^(spi.datalen + 1)},
           in \in {r % 2^(spi.datalen + 1)} :
          /\ spi' = [spi EXCEPT !.tx = Tail(spi.tx),
                                !.rx = Append(spi.rx, [word |-> in,
                                                       call |-> Head(spi.tx).call,
                                                       k |-> Head(spi.tx).k])]
          /\ sp' = IF Head(spi.tx).call = sp.n
                   THEN [sp EXCEPT !.sent = Append(sp.sent, out),
                                   !.received = sp.received + 1]
                   ELSE sp
    /\ UNCHANGED clk
    /\ UNCHANGED nonSpiVars

----------------------------------------------------------------------------
(* firmware/src/app.rs, App::setup; firmware/src/main.rs *)

\* clocks.get_clk_mchtmr0_freq(): the timer clock, 0 if it is not running
DelayClocks == {0, 24000000}

\* the position moves on and the component counts one more initialization
booted(next, component) ==
    [boot EXCEPT !.pc = next, !.done[component] = boot.done[component] + 1]

\* what App::setup does not touch before its loop
bootFrame ==
    <<buffer, last_idx, fifoe, rx, pc, plan, call, ret, written, returned, sync,
      lapped, usbVars, dap1Vars, appVars, dfuVars, presVars, opsVars, spiVars>>

\* main calls app.setup: self.delay.set_base_clock(&self.clocks)
App_setup_delay_clock ==
    /\ boot.pc = "main"
    /\ \E clock \in DelayClocks :
          boot' = [booted("dma", "delay") EXCEPT !.delay_clock = clock]
    /\ UNCHANGED <<ch6, dmaVars>>
    /\ UNCHANGED bootFrame

\* self.dma.setup()
App_setup_dma ==
    /\ boot.pc = "dma"
    /\ setup_registers
    /\ boot' = booted("pins", "dma")
    /\ UNCHANGED bootFrame

\* self.pins.setup(); self.pins.high_impedance_mode()
App_setup_pins ==
    /\ boot.pc = "pins"
    /\ boot' = booted("toggle", "pins")
    /\ UNCHANGED <<ch6, dmaVars>>
    /\ UNCHANGED bootFrame

\* the loop of App::setup, which no statement leaves:
\* self.pins.xpi0_sclk.toggle()
App_setup_toggle ==
    /\ boot.pc = "toggle"
    /\ boot' = [boot EXCEPT !.pc = "delay", !.xpi0_sclk = ~boot.xpi0_sclk]
    /\ UNCHANGED <<ch6, dmaVars>>
    /\ UNCHANGED bootFrame

\* the loop of App::setup: self.delay.delay_us(1000), which asserts that the
\* delay clock is set and returns to the head of the loop
App_setup_delay_us ==
    /\ boot.pc = "delay"
    /\ ~halted
    /\ boot' = [boot EXCEPT !.pc = IF boot.delay_clock > 0 THEN "toggle" ELSE "delay"]
    /\ halted' = (boot.delay_clock = 0)
    /\ UNCHANGED <<ch6, dmaVars>>
    /\ UNCHANGED <<buffer, last_idx, fifoe, rx, pc, plan, call, ret, written,
                   returned, sync, lapped, dap1Vars, appVars, dfuVars, presVars,
                   opsVars, spiVars>>
    /\ UNCHANGED <<usb_state, dev_state, device_state, read_ep, serial_rx, usb_ret,
                   icall, trace_busy, write_ep, trace_ep, hid_ep, ucall>>

----------------------------------------------------------------------------
(* Specifications *)

\* Spi::new
\* the registers of an SPI before any setup
ResetRegs(divider) ==
    [sclk_div |-> divider, csht |-> 0, cs2sclk |-> 0, datalen |-> 8 - 1,
     cpol |-> "Low", dmaen |-> FALSE]

NoClockCall ==
    [op |-> "none", instance |-> 0, prescaler |-> NoPrescaler, underflow |-> FALSE,
     n |-> 0]

\* Spi::new: base_clock is 0
ClockingNew(spi1, spi2, divider) ==
    clocking = [clocks |-> [spi1 |-> spi1, spi2 |-> spi2],
                base_clock |-> [i \in Instances |-> 0],
                regs |-> [i \in Instances |-> ResetRegs(divider)],
                panicked |-> FALSE,
                call |-> NoClockCall]

PresNew ==
    /\ base_clock = 0
    /\ prescaler = [called |-> FALSE, max_frequency |-> 0, ret |-> NoPrescaler]
    /\ ClockingNew(0, 0, 0)

\* main before app.setup
BootNew ==
    boot = [pc |-> "main", delay_clock |-> 0, xpi0_sclk |-> FALSE,
            done |-> [c \in {"delay", "dma", "pins", "swd_spi", "jtag_spi", "dap", "usb"}
                        |-> 0]]

\* no stream operation called yet, no status pending
\* no start operation called, the abort and error status as given
NoStart ==
    [op |-> "none", len |-> 0, pc |-> 0, prog |-> << >>, writes |-> << >>, n |-> 0]

StartNew(abort, error) ==
    dstart = [call |-> NoStart, abort |-> abort, error |-> error,
              before |-> [x |-> << >>, src |-> << >>, tc |-> {},
                          c6 |-> [enable |-> FALSE, transize |-> 0, dstaddr |-> "none"],
                          abort |-> {}, error |-> {}]]

\* the log sink idle, the transmit FIFO of UART0 empty
LogNew ==
    logtx = [len |-> 0, lens |-> << >>, fifo |-> 0, n |-> 0, sent |-> 0, cut |-> 0]

OpsNew ==
    /\ tc = {}
    /\ dop = [peripheral |-> "none", op |-> "none", accessed |-> {}, result |-> 0, n |-> 0]
    /\ uart0 = [last_idx |-> 0, fifoe |-> FALSE]
    /\ jtag = [pc |-> "idle", len |-> 0, stored |-> 0, n |-> 0]
    /\ StartNew({}, {})
    /\ LogNew

\* SPI1 after Spi::setup_swd, no primitive called, FIFOs empty
SpiNew ==
    /\ spi = [datalen |-> 8 - 1, wrtrancnt |-> 0, rdtrancnt |-> 0, tx |-> << >>, rx |-> << >>]
    /\ clk = [control |-> "spi", level |-> "high", held |-> 0]
    /\ sp = [fn |-> "none", data |-> 0, parity |-> 0, n |-> 0, pc |-> 0,
             prog |-> << >>, acc |-> 0, ret |-> 0, ret_parity |-> 0,
             returned |-> FALSE,
             pushed |-> << >>, sent |-> << >>, received |-> 0, reads |-> << >>,
             events |-> << >>, clean |-> TRUE, fixed_only |-> TRUE]

BspNew == PresNew /\ BootNew /\ OpsNew /\ SpiNew

\* the DMA controller and the multiplexer after reset
DmaNew ==
    /\ chctrl = [c \in Channels |-> ResetCtrl]
    /\ chsrc = [c \in Channels |-> NoAddr]
    /\ chx = [c \in Channels \ {6} |->
                [enable |-> FALSE, transize |-> 0, dstaddr |-> NoAddr]]
    /\ muxcfg = [c \in Channels |-> [enable |-> FALSE, source |-> 0]]
    /\ dcall = [n |-> 0, first_enabled |-> {}, first_ctrl |-> chctrl]

\* DfuRuntime::new
DfuNew ==
    /\ dfu = [interface |-> "dfu"]
    /\ dfu_xfer = [dir |-> "none",
                   req |-> [request_type |-> "Standard", recipient |-> "Device",
                            index |-> "serial", request |-> 0],
                   answer |-> Unanswered]

NoCall == [op |-> "none", rxlen |-> 0, last_idx |-> 0, ndtr |-> 0, written |-> 0, seq |-> 0]
NoPlan == [dma_idx |-> 0, n1 |-> 0, n2 |-> 0, new_last_idx |-> 0]
NoInterrupt ==
    [op |-> "none", seq |-> 0, vcp_idle |-> FALSE, ev |-> FALSE,
     dev_before |-> "Default", old_state |-> "Default", new_state |-> "Default",
     pending |-> << >>, serial_pending |-> << >>,
     read_cmd |-> FALSE, read_serial |-> FALSE, configure |-> FALSE, cb |-> NoEvent]

NoPoll ==
    [op |-> "none", seq |-> 0, pending |-> << >>, req |-> NoRequest, cb |-> NoEvent,
     engine |-> << >>, replies |-> << >>, suspended |-> FALSE,
     busy_before |-> FALSE, busy_seen |-> FALSE, streaming |-> FALSE, swo_read |-> FALSE,
     streamed |-> FALSE, panicked |-> FALSE]

\* App::new
AppNew ==
    /\ resp_buf = Zeros(DAP2_PACKET_SIZE)
    /\ pcall = NoPoll
    /\ hid_rx = << >>

NoUsbCall ==
    [op |-> "none", seq |-> 0, len |-> 0, result |-> "Ok", wrote |-> FALSE,
     busy_before |-> FALSE, state_before |-> "Uninitialized"]

\* USB::new
UsbNew ==
    /\ usb_state = "Uninitialized"
    /\ halted = FALSE
    /\ dev_state = "Default"
    /\ device_state = "Default"
    /\ read_ep = << >>
    /\ serial_rx = << >>
    /\ usb_ret = NoRequest
    /\ icall = NoInterrupt
    /\ trace_busy = FALSE
    /\ write_ep = EpIdle
    /\ trace_ep = EpIdle
    /\ hid_ep = EpIdle
    /\ ucall = NoUsbCall

\* the ring buffer as Uart::new leaves it, the registers of channel 6 apart
RingNew ==
    /\ buffer = [i \in 1..RingLen |-> 0]
    /\ last_idx = 0
    /\ fifoe = FALSE
    /\ rx = << >>
    /\ pc = "idle"
    /\ plan = NoPlan
    /\ call = NoCall
    /\ ret = 0
    /\ written = 0
    /\ returned = << >>
    /\ sync = FALSE
    /\ lapped = FALSE

\* the ring buffer as Uart::new leaves it
UartNew ==
    /\ RingNew
    /\ ch6 = [enable |-> FALSE, transize |-> 0, dstaddr |-> "none"]

\* Uart::new, after DMA::setup (channel disabled, TRANSIZE not yet written)
UartInit ==
    /\ buffer = [i \in 1..RingLen |-> 0]
    /\ last_idx = 0
    /\ fifoe = FALSE
    /\ ch6 \in [enable : {FALSE}, transize : 0..RingLen, dstaddr : {"none"}]
    /\ rx = << >>
    /\ pc = "idle"
    /\ plan = NoPlan
    /\ call = NoCall
    /\ ret = 0
    /\ written = 0
    /\ returned = << >>
    /\ sync = FALSE
    /\ lapped = FALSE
    /\ UsbNew
    /\ AppNew
    /\ DfuNew
    /\ DmaNew
    /\ BspNew

UartNext ==
    \/ Uart_start
    \/ DMA_uart9_start
    \/ Uart_stop
    \/ Uart_bytes_available
    \/ \E rxlen \in 0..MaxRx : Uart_read_begin(rxlen)
    \/ Uart_read_finish
    \/ DmaWrite
    \/ DmaReload

\* the ring buffer with the DMA engine running beside the processor
UartSpec == UartInit /\ [][UartNext]_vars

\* every cursor pair of the 256-byte buffer; byte i of the buffer holds i
FnInit ==
    /\ buffer = [i \in 1..BUFFER_LEN |-> i - 1]
    /\ last_idx \in 0..BUFFER_LEN
    /\ ch6 \in [enable : {TRUE}, transize : 0..BUFFER_LEN, dstaddr : {"buffer"}]
    /\ fifoe = TRUE
    /\ rx = << >>
    /\ pc = "idle"
    /\ plan = NoPlan
    /\ call = NoCall
    /\ ret = 0
    /\ written = 0
    /\ returned = << >>
    /\ sync = FALSE
    /\ lapped = FALSE
    /\ UsbNew
    /\ AppNew
    /\ DfuNew
    /\ DmaNew
    /\ BspNew

FnNext ==
    \/ call.op = "none" /\ Uart_bytes_available
    \/ call.op = "none" /\ \E rxlen \in FnRxLens : Uart_read_begin(rxlen)
    \/ Uart_read_finish

\* one call of bytes_available or read from every state of the cursors
UartFnSpec == FnInit /\ [][FnNext]_vars

UsbInit == UartNew /\ UsbNew /\ AppNew /\ DfuNew /\ DmaNew /\ BspNew

UsbNext ==
    \/ USB_setup
    \/ USB_interrupt_uninitialized
    \/ \E vcp_idle \in BOOLEAN : USB_interrupt(vcp_idle)
    \/ \E pkt \in CommandPackets : HostSendsCommand(pkt)
    \/ \E pkt \in SerialPackets : HostSendsSerial(pkt)

\* the transport dispatcher, the host and the bus
UsbSpec == UsbInit /\ [][UsbNext]_vars

UsbTxNext ==
    \/ USB_setup
    \/ USB_interrupt_uninitialized
    \/ \E op \in UsbOperations : USB_call_uninitialized(op)
    \/ USB_interrupt_among(FALSE, TxDeviceStates)
    \/ \E n \in TxLens : USB_dap2_reply(Packet(n))
    \/ USB_dap2_swo_is_busy
    \/ \E n \in TxLens : USB_dap2_stream_swo(Packet(n))

\* the operations of the dispatcher that transmit, and the bus
UsbTxSpec == UsbInit /\ [][UsbTxNext]_vars

AppNext ==
    \/ usb_state = "Uninitialized" /\ USB_setup
    \/ App_poll
    \/ \E pkt \in CommandPackets : HostSendsCommand(pkt)
    \/ \E pkt \in ReportPackets : HostSendsReport(pkt)

\* the main loop after the setup of the dispatcher, the host and the bus
AppSpec == UsbInit /\ [][AppNext]_vars

\* the main loop while the engine streams no trace, and the host sending
\* command packets
DispatchNext ==
    \/ usb_state = "Uninitialized" /\ USB_setup
    \/ App_poll_among({FALSE})
    \/ \E pkt \in CommandPackets : HostSendsCommand(pkt)

DispatchSpec == UsbInit /\ [][DispatchNext]_vars

\* main.rs: loop { app.poll() } never stops iterating, and while a packet is
\* pending in the command endpoint the poll of the device eventually reports
\* it with the bus state as recorded: the iteration that reads the endpoint
\* is not put off for ever
DispatchFairSpec ==
    DispatchSpec
        /\ WF_vars(read_ep # << >> /\ App_poll_among({FALSE}) /\ read_ep' # read_ep)

RouterNext ==
    \/ usb_state = "Uninitialized" /\ USB_setup
    \/ \E req \in RouterRequests : App_process_request(req)

\* process_request applied to requests of every kind
RouterSpec == UsbInit /\ [][RouterNext]_vars

\* the registers in any state: every ENABLE bit either way; the CTRL
\* registers, the peripheral addresses and the multiplexer as after reset, as
\* DMA::setup writes them, or some of them rewritten since
DmaInit ==
    /\ RingNew
    /\ UsbNew
    /\ AppNew
    /\ DfuNew
    /\ BspNew
    /\ \E en \in SUBSET Channels, kind \in {"reset", "setup", "mixed"} :
        \E r \in {IF kind = "reset" THEN ResetRegisters
                  ELSE IF kind = "setup" THEN setup(ResetRegisters)
                  ELSE [setup(ResetRegisters) EXCEPT
                           !.ctrl[SPI1_TX_CH] = ResetCtrl,
                           !.dst[SPI2_TX_CH] = PeriAddr("SPI1", SPI_DATA_OFFSET),
                           !.src[UART0_RX_CH] = NoAddr,
                           !.mux[UART9_RX_CH] = [enable |-> FALSE, source |-> Uart0Rx]]} :
          /\ chctrl = r.ctrl
          /\ chsrc = r.src
          /\ muxcfg = r.mux
          /\ ch6 = [enable |-> 6 \in en, transize |-> 0, dstaddr |-> "none"]
          /\ chx = [c \in Channels \ {6} |->
                      [enable |-> c \in en, transize |-> 0, dstaddr |-> r.dst[c]]]
          /\ dcall = [n |-> 0, first_enabled |-> {}, first_ctrl |-> r.ctrl]

DmaNext == DMA_setup

\* DMA::setup called once and twice from every state of the registers
DmaSpec == DmaInit /\ [][DmaNext]_vars

\* the base clock as any Spi::set_base_clock left it
PresInit ==
    /\ UartNew
    /\ UsbNew
    /\ AppNew
    /\ DfuNew
    /\ DmaNew
    /\ base_clock \in BaseClocks
    /\ prescaler = [called |-> FALSE, max_frequency |-> 0, ret |-> NoPrescaler]
    /\ ClockingNew(0, 0, 0)
    /\ BootNew
    /\ OpsNew
    /\ SpiNew

PresNext == \E max_frequency \in MaxFrequencies : Spi_calculate_prescaler(max_frequency)

\* one call of calculate_prescaler for every base clock and requested frequency
PresSpec == PresInit /\ [][PresNext]_vars

\* the clock of both transaction layers from any frozen clock tree
ClockInit ==
    /\ UartNew
    /\ UsbNew
    /\ AppNew
    /\ DfuNew
    /\ DmaNew
    /\ base_clock = 0
    /\ prescaler = [called |-> FALSE, max_frequency |-> 0, ret |-> NoPrescaler]
    /\ \E spi1 \in SpiClocks, spi2 \in SpiClocks, divider \in ResetDividers :
          ClockingNew(spi1, spi2, divider)
    /\ BootNew
    /\ OpsNew
    /\ SpiNew

ClockNext ==
    /\ clocking.call.n < MaxClockCalls
    /\ \E instance \in Instances :
          \/ Spi_set_base_clock(instance)
          \/ Spi_setup_swd(instance)
          \/ Spi_setup_jtag(instance)
          \/ \E p \in {SPIPrescalers[i] : i \in 1..8} : Spi_set_prescaler(instance, p)

ClockSpec == ClockInit /\ [][ClockNext]_vars

BootNext ==
    \/ App_setup_delay_clock
    \/ App_setup_dma
    \/ App_setup_pins
    \/ App_setup_toggle
    \/ App_setup_delay_us

\* main up to the loop of App::setup, from every state of the DMA registers;
\* the statements after that loop are never reached
BootSpec == DmaInit /\ [][BootNext]_vars

\* the same, the processor never stopping while it has a step to take
BootFairSpec == BootSpec /\ WF_vars(BootNext)

\* the registers as DMA::setup leaves them after reset
AfterSetup ==
    \E r \in {setup(ResetRegisters)} :
        /\ chctrl = r.ctrl
        /\ chsrc = r.src
        /\ muxcfg = r.mux
        /\ chx = [c \in Channels \ {6} |->
                    [enable |-> FALSE, transize |-> 0, dstaddr |-> r.dst[c]]]
        /\ dcall = [n |-> 1, first_enabled |-> {}, first_ctrl |-> r.ctrl]

\* main: both Uart instances created and started, any status left pending
StreamInit ==
    /\ RingNew
    /\ ch6 \in [enable : BOOLEAN, transize : 0..RingLen, dstaddr : {"none"}]
    /\ UsbNew
    /\ AppNew
    /\ DfuNew
    /\ PresNew
    /\ BootNew
    /\ SpiNew
    /\ AfterSetup
    /\ tc \in {{}, BoundChannels}
    /\ dop = [peripheral |-> "none", op |-> "none", accessed |-> {}, result |-> 0, n |-> 0]
    /\ uart0 = [last_idx |-> 0, fifoe |-> TRUE]
    /\ jtag = [pc |-> "idle", len |-> 0, stored |-> 0, n |-> 0]
    /\ StartNew({}, {})
    /\ LogNew

\* the status the channels may have been left with
StaleStatus == {{}, {SPI1_TX_CH, UART0_TX_CH}, BoundChannels}

\* the DMA set up, any status left pending
StartInit ==
    /\ RingNew
    /\ ch6 = [enable |-> FALSE, transize |-> 0, dstaddr |-> "none"]
    /\ UsbNew
    /\ AppNew
    /\ DfuNew
    /\ PresNew
    /\ BootNew
    /\ SpiNew
    /\ AfterSetup
    /\ tc \in StaleStatus
    /\ dop = [peripheral |-> "none", op |-> "none", accessed |-> {}, result |-> 0, n |-> 0]
    /\ uart0 = [last_idx |-> 0, fifoe |-> TRUE]
    /\ jtag = [pc |-> "idle", len |-> 0, stored |-> 0, n |-> 0]
    /\ \E abort \in StaleStatus, error \in StaleStatus : StartNew(abort, error)
    /\ LogNew

StartNext ==
    \/ /\ dstart.call.n < MaxStarts
       /\ \E len \in 1..MaxTransfer :
             \/ DMA_start_call("spi1_enable", spi1_enable_writes(len), len)
             \/ DMA_start_call("spi2_enable", spi2_enable_writes(len), len)
             \/ DMA_start_call("uart9_start", uart9_start_writes(len), len)
             \/ DMA_start_call("uart0_start_rx", uart0_start_rx_writes(len), len)
             \/ DMA_start_call("uart0_start_tx_transfer",
                               uart0_start_tx_transfer_writes(len), len)
    \/ DMA_start_write
    \/ DMA_start_return

\* the start operations of the DMA, write by write, one call after the other
StartSpec == StartInit /\ [][StartNext]_vars

\* the DMA set up, the log sink created, any status left pending
LogInit ==
    /\ RingNew
    /\ ch6 = [enable |-> FALSE, transize |-> 0, dstaddr |-> "none"]
    /\ UsbNew
    /\ AppNew
    /\ DfuNew
    /\ PresNew
    /\ BootNew
    /\ SpiNew
    /\ AfterSetup
    /\ tc \in StaleStatus
    /\ dop = [peripheral |-> "none", op |-> "none", accessed |-> {}, result |-> 0, n |-> 0]
    /\ uart0 = [last_idx |-> 0, fifoe |-> TRUE]
    /\ jtag = [pc |-> "idle", len |-> 0, stored |-> 0, n |-> 0]
    /\ StartNew({}, {})
    /\ LogNew

LogNext ==
    \/ logtx.n < MaxSends /\ \E len \in 1..MaxTransfer : Uart0_send_bytes(len)
    \/ DmaUart0Transmit
    \/ Uart0Shift

\* the log sink writing one piece after the other, the DMA engine and the
\* transmitter of UART0 running beside the processor
LogSpec == LogInit /\ [][LogNext]_vars

StreamNext ==
    \/ \E len \in 1..MaxTransfer : DMA_spi1_enable(len)
    \/ DMA_spi1_busy
    \/ DMA_spi1_disable
    \/ \E len \in 1..MaxTransfer : DMA_spi2_enable(len)
    \/ DMA_spi2_busy
    \/ DMA_spi2_disable
    \/ \E len \in 1..MaxTransfer : DMA_uart0_start_rx(len)
    \/ DMA_uart0_rx_ndtr
    \/ DMA_uart0_tx_ndtr
    \/ \E len \in 1..MaxTransfer : DMA_uart0_start_tx_transfer(len)
    \/ DMA_uart0_stop
    \/ Uart0_start
    \/ Uart0_stop
    \/ Uart0_bytes_available
    \/ \E rxlen \in 0..MaxRx : Uart0_read(rxlen)
    \/ call.seq = 0 /\ Uart_start
    \/ call.seq = 0 /\ DMA_uart9_start
    \/ call.seq = 0 /\ Uart_stop
    \/ call.seq = 0 /\ Uart_bytes_available
    \/ call.seq = 0 /\ \E rxlen \in 0..MaxRx : Uart_read_begin(rxlen)
    \/ Uart_read_finish

\* the stream operations of the DMA and of both Uart instances, called one
\* after the other
StreamSpec == StreamInit /\ [][StreamNext]_vars

\* the DMA set up, the status of the SPI2 channels as earlier transfers left it
JtagInit ==
    /\ UartNew
    /\ UsbNew
    /\ AppNew
    /\ DfuNew
    /\ PresNew
    /\ BootNew
    /\ SpiNew
    /\ AfterSetup
    /\ tc \in SUBSET {SPI1_TX_CH, SPI2_RX_CH, SPI2_TX_CH}
    /\ dop = [peripheral |-> "none", op |-> "none", accessed |-> {}, result |-> 0, n |-> 0]
    /\ uart0 = [last_idx |-> 0, fifoe |-> TRUE]
    /\ jtag = [pc |-> "idle", len |-> 0, stored |-> 0, n |-> 0]
    /\ StartNew({}, {})
    /\ LogNew

\* the steps of the processor in jtag_exchange
JtagProcessor ==
    \/ \E len \in 1..MaxJtagLen : Spi_jtag_exchange_enable(len)
    \/ Spi_jtag_exchange_wait
    \/ Spi_jtag_exchange_disable

JtagNext ==
    \/ JtagProcessor
    \/ DmaSpi2Transmit
    \/ DmaSpi2Receive

\* jtag_exchange with the DMA engine running beside the processor
JtagSpec == JtagInit /\ [][JtagNext]_vars

\* the same; the processor goes on while it has a step to take, and the DMA
\* engine moves every byte it can move
JtagFairSpec ==
    /\ JtagSpec
    /\ WF_vars(JtagProcessor)
    /\ WF_vars(DmaSpi2Transmit)
    /\ WF_vars(DmaSpi2Receive)

\* the steps of a primitive and of the shift register
SpiSteps ==
    \/ Spi_start_transfer
    \/ Spi_write_dr
    \/ Spi_read_dr
    \/ Spi_wait_rxne
    \/ Spi_return
    \/ SpiShift

ExchangeNext ==
    \/ sp.n < MaxExchangeCalls /\ \E data \in TxData : Spi_tx4(data)
    \/ sp.n < MaxExchangeCalls /\ \E data \in TxData : Spi_tx8(data)
    \/ sp.n < MaxExchangeCalls /\ \E data \in TxData : Spi_tx16(data)
    \/ sp.n < MaxExchangeCalls /\ Spi_rx4
    \/ sp.n < MaxExchangeCalls /\ Spi_rx5
    \/ SpiSteps

\* the fixed-width exchanges called one after the other, the shift register
\* running beside the processor at any speed
ExchangeSpec == UsbInit /\ [][ExchangeNext]_vars

PhaseNext ==
    \/ sp.n < MaxPhaseCalls /\ \E data \in WData, parity \in Parities :
                                   Spi_swd_wdata_phase(data, parity)
    \/ sp.n < MaxPhaseCalls /\ Spi_swd_rdata_phase
    \/ SpiSteps
    \/ Pins_swd_clk_direct
    \/ Pin_set_low
    \/ Pin_set_high
    \/ Delay_delay_ticks
    \/ Pins_swd_clk_spi

\* the data phases of SWD, the shift register running beside the processor at
\* any speed
PhaseSpec == UsbInit /\ [][PhaseNext]_vars

DfuNext ==
    \/ \E req \in ControlRequests : Dfu_control_in(req)
    \/ \E req \in ControlRequests : Dfu_control_out(req)

\* the DFU function offered control requests of every kind
DfuSpec == UsbInit /\ [][DfuNext]_vars

----------------------------------------------------------------------------
(* Ring Buffer Capture: claims *)

\* the step is a call of the Uart operation `op`
IsCall(op) == call'.seq # call.seq /\ call'.op = op

ReadDone == call.op = "read" /\ pc = "idle"

\* the byte the code's buffer holds at index (last + k) mod C, k = 0, 1, ...
RingByte(last, k) == buffer[((last + k) % buffer_len) + 1]

\* ((C - remaining) - last_idx) mod C
AvailableModC(last, ndtr) == ((buffer_len - ndtr) - last) % buffer_len

\* the same, a full buffer counted as C when both cursors sit on the buffer's
\* two ends (remaining = 0, last_idx = 0)
AvailableFull(last, ndtr) ==
    IF ndtr = 0 /\ last = 0 THEN buffer_len ELSE AvailableModC(last, ndtr)

ReadContract(available) ==
    LET n == Min(available, call.rxlen)
    IN  /\ ret = n
        /\ \A k \in 0..(n - 1) : rx[k + 1] = RingByte(call.last_idx, k)
        /\ (last_idx - (call.last_idx + n)) % buffer_len = 0
        /\ last_idx \in 0..buffer_len

Unread == written - Len(returned)

\* C2: while the DMA writes never lap the consumer, the bytes returned by the
\* reads so far are exactly the first bytes the DMA wrote, in order, and the
\* bytes not yet returned are still in the ring, in order, from last_idx on,
\* where the cursors make the next reads return them.
C2_StreamPreserved ==
    Tracking =>
        /\ returned = [i \in 1..Len(returned) |-> i]
        /\ Len(returned) <= written
        /\ \A k \in 0..(Unread - 1) : RingByte(last_idx, k) = Len(returned) + k + 1
        /\ pc = "idle" => bytes_available(buffer_len, last_idx, uart9_ndtr) = Unread

\* a read that crossed the buffer's end has returned the last byte written
C2_Witness ==
    /\ Tracking
    /\ ReadDone
    /\ plan.n1 > 0 /\ plan.n2 > 0
    /\ written > buffer_len
    /\ Len(returned) = written

\* C3: a read returns no byte written after its snapshot of the write cursor,
\* and no more bytes than were available at the snapshot, whatever the DMA
\* engine writes while the copy is in progress; those bytes stay unread.
C3_NothingBeyondSnapshot ==
    (Tracking /\ ReadDone) =>
        /\ \A i \in 1..ret : rx[i] <= call.written
        /\ ret <= bytes_available(buffer_len, call.last_idx, call.ndtr)
        /\ Len(returned) <= call.written
        /\ plan.dma_idx = dma_idx_of(buffer_len, call.ndtr)

\* the DMA engine wrote during the copy of a read that returned bytes
C3_Witness ==
    /\ Tracking
    /\ ReadDone
    /\ ret > 0
    /\ written > call.written
    /\ Unread > 0

\* C4 as stated: bytes_available returns ((C - remaining) - last_idx) mod C
C4_BytesAvailableModC ==
    call.op = "bytes_available" => ret = AvailableModC(call.last_idx, call.ndtr)

\* C4 amended: bytes_available returns ((C - remaining) - last_idx) mod C,
\* except C when remaining = 0 and last_idx = 0
C4_BytesAvailable ==
    call.op = "bytes_available" => ret = AvailableFull(call.last_idx, call.ndtr)

\* the write cursor has wrapped behind the read cursor
C4_Witness ==
    /\ call.op = "bytes_available"
    /\ buffer_len = 256
    /\ call.last_idx = 250 /\ call.ndtr = 252
    /\ ret = 10

\* C5: a call of bytes_available changes neither last_idx, nor the buffer, nor
\* a DMA or UART register, and a call that follows another one with no read
\* and no DMA progress in between returns the same value.
C5_BytesAvailableReadOnly ==
    [][IsCall("bytes_available") =>
          /\ last_idx' = last_idx
          /\ buffer' = buffer
          /\ ch6' = ch6
          /\ fifoe' = fifoe
          /\ (call.op = "bytes_available" /\ call'.ndtr = call.ndtr
                  /\ call'.written = call.written) => ret' = ret]_vars

\* bytes_available has been called with unread bytes in the ring
C5_Witness ==
    /\ call.op = "bytes_available"
    /\ ret > 0
    /\ last_idx > 0
    /\ ch6.enable

\* C6: a call of start() leaves last_idx = 0 and the receive channel enabled
\* on the whole buffer (length C), so that nothing is available yet.
C6_StartArmsCircularDma ==
    [][IsCall("start") =>
          /\ last_idx' = 0
          /\ ch6'.enable
          /\ ch6'.dstaddr = "buffer"
          /\ ch6'.transize = buffer_len
          /\ bytes_available(buffer_len, last_idx', ch6'.transize) = 0]_vars

\* C7: a call of stop() disables the receive channel and changes neither
\* last_idx nor the buffer.
C7_StopDisablesKeepsCursor ==
    [][IsCall("stop") =>
          /\ ~ch6'.enable
          /\ last_idx' = last_idx
          /\ buffer' = buffer]_vars

\* stop() was called on a running channel with bytes still unread
C7_Witness ==
    /\ call.op = "stop"
    /\ ~ch6.enable
    /\ ch6.dstaddr = "buffer"
    /\ last_idx > 0
    /\ Tracking /\ Unread > 0

----------------------------------------------------------------------------
(* Transport Dispatcher: claims *)

\* the step is a call of USB::interrupt on the initialized dispatcher
IsInterrupt == icall'.seq # icall.seq

Interrupted == icall.op = "interrupt"

\* the bus state the call found differs from the recorded one and is not Configured
LeftForNonConfigured ==
    icall.old_state # icall.new_state /\ icall.new_state # "Configured"

SerialRequest ==
    IF icall.vcp_idle /\ icall.serial_pending # << >>
    THEN VCPPacket(Head(icall.serial_pending))
    ELSE NoRequest

\* C8 as stated: the one request returned is Suspend when the bus state changed
\* to a state other than Configured; otherwise the DebugCommand of a pending
\* command packet; otherwise, with serial_idle, a SerialPacket; and none when
\* the poll reports no event.
C8_OneRequestByPriority ==
    Interrupted =>
        usb_ret = IF ~icall.ev THEN NoRequest
                  ELSE IF LeftForNonConfigured THEN Suspend
                  ELSE IF icall.pending # << >> THEN DAP2Command(Head(icall.pending))
                  ELSE SerialRequest

\* C8 amended: the DebugCommand is returned for a pending command packet that
\* is not empty; an empty one is read and dropped and the call goes on to the
\* serial read.  No call reads more than one packet from either endpoint.
C8_OneRequestByPriorityNonEmpty ==
    Interrupted =>
        /\ usb_ret = IF ~icall.ev THEN NoRequest
                     ELSE IF LeftForNonConfigured THEN Suspend
                     ELSE IF icall.pending # << >> /\ Head(icall.pending) # << >>
                     THEN DAP2Command(Head(icall.pending))
                     ELSE SerialRequest
        /\ usb_ret.tag = "DAP2Command" => ~icall.read_serial
        /\ usb_ret.tag = "Suspend" => ~icall.read_cmd /\ ~icall.read_serial
        /\ ~icall.ev => ~icall.read_cmd /\ ~icall.read_serial

\* a command was returned although serial data was pending and wanted
C8_Witness ==
    /\ Interrupted
    /\ usb_ret.tag = "DAP2Command"
    /\ icall.vcp_idle
    /\ icall.serial_pending # << >>

\* C9 as stated: a call whose poll takes the device from Configured to another
\* state returns Suspend.
C9_SuspendOnVeryNextPoll ==
    (Interrupted /\ icall.dev_before = "Configured" /\ icall.new_state # "Configured")
        => usb_ret = Suspend

\* C9 amended: a call returns Suspend exactly when its poll reports an event and
\* the device is in a state that is not Configured and differs from the state
\* recorded at the last poll that reported an event; the call records the new
\* state, and the call after a Suspend returns no Suspend when the bus state
\* is still the same.
C9_SuspendOncePerObservedChange ==
    [][IsInterrupt =>
          /\ (usb_ret' = Suspend) <=>
                 (icall'.ev /\ device_state # dev_state' /\ dev_state' # "Configured")
          /\ usb_ret' = Suspend => device_state' = dev_state'
          /\ (Interrupted /\ usb_ret = Suspend /\ dev_state' = dev_state)
                 => usb_ret' # Suspend]_vars

\* the device left Configured and the call returned Suspend
C9_Witness ==
    /\ Interrupted
    /\ usb_ret = Suspend
    /\ icall.dev_before = "Configured"
    /\ icall.old_state = "Configured"
    /\ device_state = icall.new_state

\* C10: a call that returns Suspend reads neither the command endpoint nor the
\* serial port: the packets pending are all still pending after it.
C10_SuspendBeforeCommands ==
    [][(IsInterrupt /\ usb_ret' = Suspend) =>
          /\ read_ep' = read_ep
          /\ serial_rx' = serial_rx
          /\ ~icall'.read_cmd
          /\ ~icall'.read_serial]_vars

\* Suspend was returned with a command packet pending, which stayed pending
C10_Witness ==
    /\ Interrupted
    /\ usb_ret = Suspend
    /\ icall.pending # << >>
    /\ Head(icall.pending) # << >>
    /\ read_ep = icall.pending

\* C18: a call reads the serial port exactly when vcp_idle is true, its poll
\* reported an event and it produced neither Suspend nor a debug command; a
\* read that finds a packet returns it as the one VCPPacket and consumes it; a
\* read that fails returns no request, leaves the serial port and the
\* dispatcher as they are and does not panic; a call that does not read leaves
\* the serial port alone.
C18_SerialReadOnlyWhenIdle ==
    [][IsInterrupt =>
          /\ icall'.read_serial
                <=> (icall'.vcp_idle /\ icall'.ev
                       /\ usb_ret'.tag \notin {"Suspend", "DAP2Command"})
          /\ (icall'.read_serial /\ serial_rx # << >>)
                => (usb_ret' = VCPPacket(Head(serial_rx)) /\ serial_rx' = Tail(serial_rx))
          /\ (icall'.read_serial /\ serial_rx = << >>)
                => /\ usb_ret' = NoRequest
                   /\ serial_rx' = serial_rx
                   /\ usb_state' = usb_state
                   /\ device_state' = dev_state'
                   /\ ~halted'
          /\ ~icall'.read_serial => serial_rx' = serial_rx]_vars

\* a serial read failed: the call returned nothing and the dispatcher runs on
C18_Witness ==
    /\ Interrupted
    /\ icall.vcp_idle
    /\ icall.read_serial
    /\ icall.serial_pending = << >>
    /\ serial_rx = << >>
    /\ usb_ret = NoRequest
    /\ usb_state = "Initialized"
    /\ ~halted

----------------------------------------------------------------------------
(* Transport Dispatcher, transmit side: claims *)

\* the step is a call of a USB operation other than interrupt on the
\* initialized dispatcher, or of any operation before setup
IsUsbCall(op) == ucall'.seq # ucall.seq /\ ucall'.op = op

\* the poll of the step told the classes of a reset or of the trace transfer's completion
TraceReleased(cb) == cb.kind = "reset" \/ cb = InComplete("trace_ep")

\* C12: trace_busy is false initially; a step makes it true exactly when it is
\* a trace write the endpoint took; a step makes it false exactly when it is a
\* poll that delivers the completion of the trace endpoint's transfer or a
\* reset; a completion for another endpoint, a reply write and a failed trace
\* write leave it as it was.
C12_TraceBusyTwoStates ==
    /\ ~trace_busy
    /\ [][/\ (IsUsbCall("dap2_stream_swo") /\ ucall'.result = "Ok") => trace_busy'
          /\ (~trace_busy /\ trace_busy')
                => (IsUsbCall("dap2_stream_swo") /\ ucall'.result = "Ok")
          /\ (IsInterrupt /\ TraceReleased(icall'.cb)) => ~trace_busy'
          /\ (trace_busy /\ ~trace_busy') => (IsInterrupt /\ TraceReleased(icall'.cb))
          /\ (IsInterrupt /\ ~TraceReleased(icall'.cb)) => trace_busy' = trace_busy
          /\ IsUsbCall("dap2_reply") => trace_busy' = trace_busy
          /\ (IsUsbCall("dap2_stream_swo") /\ ucall'.result # "Ok")
                => trace_busy' = trace_busy]_vars

\* a reply was written and its transfer completed while the trace transfer
\* was pending: the flag is still set
C12_Witness ==
    /\ trace_busy
    /\ trace_ep.pending
    /\ ucall.op = "dap2_reply" /\ ucall.result = "Ok" /\ ucall.busy_before
    /\ icall.cb = InComplete("write_ep")
    /\ ~write_ep.pending

\* C13: a reply or trace packet longer than 512 bytes is refused with
\* BufferOverflow before the endpoint's write is called: both endpoints and
\* the busy flag are as before, and the operation panics; a packet the
\* endpoint takes is held whole.
C13_OversizeIsHardError ==
    [][/\ ((IsUsbCall("dap2_reply") \/ IsUsbCall("dap2_stream_swo"))
               /\ ucall'.len > 512)
             => /\ ucall'.result = "BufferOverflow"
                /\ ~ucall'.wrote
                /\ write_ep' = write_ep
                /\ trace_ep' = trace_ep
                /\ trace_busy' = trace_busy
                /\ halted'
       /\ (IsUsbCall("dap2_reply") /\ ucall'.result = "Ok")
             => Len(write_ep'.data) = ucall'.len
       /\ (IsUsbCall("dap2_stream_swo") /\ ucall'.result = "Ok")
             => Len(trace_ep'.data) = ucall'.len]_vars

\* a 513-byte trace packet was refused while a 512-byte one was pending
C13_Witness ==
    /\ halted
    /\ ucall.op = "dap2_stream_swo" /\ ucall.len = 513
    /\ ucall.result = "BufferOverflow"
    /\ trace_busy
    /\ Len(trace_ep.data) = 512

\* the variables of the USB device and its endpoints
deviceVars == <<dev_state, device_state, read_ep, serial_rx, usbTxVars>>

\* C14: the dispatcher becomes Initialized only by a setup call made in the
\* Uninitialized state, and never leaves Uninitialized twice; while it is not
\* Initialized every other operation panics without touching the device; a
\* setup call in any other state panics.
C14_SetupOnceElsePanic ==
    [][/\ (usb_state' = "Initialized" /\ usb_state # "Initialized")
             => (usb_state = "Uninitialized" /\ IsUsbCall("setup") /\ ~halted')
       /\ usb_state # "Uninitialized" => usb_state' # "Uninitialized"
       /\ (usb_state # "Initialized" /\ ~IsUsbCall("setup"))
             => (halted' /\ usb_state' = usb_state /\ deviceVars' = deviceVars)
       /\ (IsUsbCall("setup") /\ usb_state # "Uninitialized")
             => (halted' /\ usb_state' # "Initialized" /\ deviceVars' = deviceVars)]_vars

\* setup was called a second time
C14_Witness ==
    /\ halted
    /\ ucall.op = "setup"
    /\ ucall.state_before = "Initialized"
    /\ usb_state = "Initializing"

----------------------------------------------------------------------------
(* Main loop and request router: claims *)

\* the step is one iteration of the main loop
IsPoll == pcall'.seq # pcall.seq /\ pcall'.op = "poll"

\* the step is a call of App::process_request
IsRouted == pcall'.seq # pcall.seq /\ pcall'.op = "process_request"

\* C11 as the specification states it: an iteration writes no trace packet
\* while the busy flag is set, and a set flag lets a write through only in an
\* iteration whose poll delivered the completion of the trace transfer.
C11_WritableOnlyAfterCompletion ==
    [][IsPoll => /\ pcall'.streamed => ~pcall'.busy_seen
                 /\ (trace_busy /\ pcall'.streamed)
                       => pcall'.cb = InComplete("trace_ep")]_vars

\* C11: an iteration of the main loop hands no trace packet to the endpoint
\* while the busy flag is set; with the flag set on entry the trace endpoint
\* keeps its packet unless the iteration's poll delivered the completion of the
\* trace transfer or a bus reset, and only then a new packet is written.
C11_NoTraceWriteWhileBusy ==
    [][IsPoll => /\ pcall'.streamed => ~pcall'.busy_seen
                 /\ (trace_busy /\ ~TraceReleased(pcall'.cb))
                       => (~pcall'.streamed /\ trace_ep' = trace_ep /\ trace_busy')
                 /\ (trace_busy /\ pcall'.streamed) => TraceReleased(pcall'.cb)]_vars

\* the flag was set, a bus reset cleared it, and the same iteration wrote the
\* next trace packet
C11_Witness ==
    /\ pcall.op = "poll"
    /\ pcall.busy_before
    /\ pcall.cb = BusReset
    /\ pcall.streamed
    /\ trace_ep.pending
    /\ trace_busy

\* C15: an iteration that finds a zero-length packet at the head of the
\* version 2 command endpoint obtains no debug command, invokes the engine not
\* at all and writes no reply; no iteration reads the version 1 endpoint, and
\* the engine is never given an empty request.
C15_EmptyCommandDropped ==
    [][IsPoll => /\ (read_ep # << >> /\ Head(read_ep) = << >>)
                       => /\ pcall'.req.tag \notin {"DAP1Command", "DAP2Command"}
                          /\ pcall'.engine = << >>
                          /\ pcall'.replies = << >>
                          /\ write_ep'.pending => write_ep' = write_ep
                          /\ hid_ep'.pending => hid_ep' = hid_ep
                 /\ hid_rx' = hid_rx
                 /\ \A i \in 1..Len(pcall'.engine) :
                       /\ Len(pcall'.engine[i].data) > 0
                       /\ pcall'.engine[i].version = "V2"]_vars

\* an iteration consumed the zero-length version 2 packet and did nothing
\* with it, while a zero-length version 1 report waits unread
C15_Witness ==
    /\ pcall.op = "poll"
    /\ pcall.pending # << >>
    /\ Head(pcall.pending) = << >>
    /\ Len(read_ep) < Len(pcall.pending)
    /\ pcall.req = NoRequest
    /\ pcall.engine = << >>
    /\ pcall.replies = << >>
    /\ hid_rx # << >>
    /\ Head(hid_rx) = << >>

\* an iteration takes at most one packet from the endpoints and acts on at
\* most one request
OneRequest ==
    /\ Len(read_ep') + Len(serial_rx') + 1 >= Len(read_ep) + Len(serial_rx)
    /\ Len(pcall'.engine) <= 1
    /\ Len(pcall'.replies) <= 1
    /\ pcall'.req = NoRequest
          => (pcall'.engine = << >> /\ pcall'.replies = << >> /\ ~pcall'.suspended)
    /\ pcall'.engine # << >>
          => (pcall'.req.tag = "DAP2Command" /\ pcall'.engine[1].data = pcall'.req.data)

\* C16 as the specification states it: at most one request per iteration, and
\* the trace is pumped only in an iteration that found no request.
C16_PumpOnlyWithoutRequest ==
    [][IsPoll => /\ OneRequest
                 /\ pcall'.swo_read => pcall'.req = NoRequest]_vars

\* C16: an iteration obtains and acts on at most one request; the trace is
\* pumped in every iteration that does not panic, finds the engine streaming
\* and the trace endpoint not busy, whether or not it processed a request, and
\* in no other.
C16_OneRequestThenPump ==
    [][IsPoll => /\ OneRequest
                 /\ (pcall'.streaming /\ ~pcall'.busy_seen /\ ~pcall'.panicked)
                       => pcall'.swo_read
                 /\ pcall'.swo_read => (pcall'.streaming /\ ~pcall'.busy_seen)]_vars

\* one iteration processed a debug command, sent its reply and wrote a trace
\* packet
C16_Witness ==
    /\ pcall.op = "poll"
    /\ pcall.req.tag = "DAP2Command"
    /\ Len(pcall.engine) = 1
    /\ Len(pcall.replies) = 1
    /\ pcall.swo_read
    /\ pcall.streamed
    /\ write_ep.pending
    /\ trace_ep.pending

\* C17: for a debug command of either version the router invokes the engine
\* exactly once, with the request's version, a response buffer of 64 bytes
\* (version 1) or 512 bytes (version 2) and the request's bytes; it forwards
\* the first len bytes of the response buffer to the reply endpoint of the same
\* version when len > 0, and writes to no endpoint when len = 0.
C17_RouterInvokesOnceAndForwards ==
    [][(IsRouted /\ pcall'.req.tag \in {"DAP1Command", "DAP2Command"})
          => LET v1 == pcall'.req.tag = "DAP1Command"
                 inv == pcall'.engine[1]
                 sent == SubSeq(resp_buf', 1, inv.len)
             IN  /\ Len(pcall'.engine) = 1
                 /\ inv.version = (IF v1 THEN "V1" ELSE "V2")
                 /\ inv.cap = (IF v1 THEN 64 ELSE 512)
                 /\ inv.data = pcall'.req.data
                 /\ inv.len > 0
                       => pcall'.replies
                            = <<Forwarded(IF v1 THEN "hid_ep" ELSE "write_ep", sent)>>
                 /\ (inv.len > 0 /\ ~halted')
                       => (IF v1 THEN hid_ep' ELSE write_ep') = EpHolding(sent)
                 /\ inv.len = 0
                       => (pcall'.replies = << >> /\ write_ep' = write_ep
                             /\ hid_ep' = hid_ep)
                 /\ v1 => write_ep' = write_ep
                 /\ ~v1 => hid_ep' = hid_ep]_vars

\* a version 1 command was answered with a full 64-byte report on the version
\* 1 endpoint while the version 2 endpoint stayed empty
C17_Witness ==
    /\ pcall.op = "process_request"
    /\ pcall.req.tag = "DAP1Command"
    /\ pcall.engine[1].len = 64
    /\ hid_ep = EpHolding(SubSeq(resp_buf, 1, 64))
    /\ ~write_ep.pending

----------------------------------------------------------------------------
(* DFU runtime function: claims *)

\* C19: of the class requests to the DFU interface the function accepts
\* GETSTATUS (control-in) with six zero bytes and DETACH (control-out),
\* and rejects every other one; it answers no other request; no request
\* changes its state.
C19_DfuAnswers ==
    /\ dfu = [interface |-> "dfu"]
    /\ dfu_xfer.dir # "none"
          => dfu_xfer.answer
               = IF ~(/\ dfu_xfer.req.request_type = "Class"
                      /\ dfu_xfer.req.recipient = "Interface"
                      /\ dfu_xfer.req.index = "dfu")
                 THEN Unanswered
                 ELSE IF dfu_xfer.dir = "in" /\ dfu_xfer.req.request = 3
                 THEN Accepted(<<0, 0, 0, 0, 0, 0>>)
                 ELSE IF dfu_xfer.dir = "out" /\ dfu_xfer.req.request = 0
                 THEN Accepted(<< >>)
                 ELSE Rejected

----------------------------------------------------------------------------
(* DMA Channel Manager: claims *)

\* the step is a call of DMA::setup
IsDmaSetup == dcall'.n # dcall.n

\* the peripheral each bound channel serves: the request source of its
\* multiplexer slot, its data register, and whether it receives
C20_Source == <<2, 3, 5, 4, 8, 9, 26>>
C20_Peripheral ==
    <<[base |-> "SPI1", offset |-> 44], [base |-> "SPI1", offset |-> 44],
      [base |-> "SPI2", offset |-> 44], [base |-> "SPI2", offset |-> 44],
      [base |-> "UART0", offset |-> 32], [base |-> "UART0", offset |-> 32],
      [base |-> "UART9", offset |-> 32]>>
C20_Receives == {0, 2, 4, 6}

\* C20: whatever the registers held, after a call of DMA::setup each of the
\* channels 0..6 has the one control configuration of its direction with its
\* own number as request select, the data register of its peripheral as the
\* fixed address, its multiplexer slot armed on its request source, and its
\* ENABLE bit cleared; the transfer sizes, the memory addresses and channel 7
\* are as before; a second call changes no register.
C20_SetupIdempotentEnablesNothing ==
    [][IsDmaSetup =>
          /\ \A c \in 0..6 :
                LET receives == c \in C20_Receives
                IN  /\ chctrl'[c] =
                          [SRCBUSINFIDX |-> 0, DSTBUSINFIDX |-> 0, PRIORITY |-> "Lower",
                           SRCBURSTSIZE |-> "Transfer1", SRCWIDTH |-> "Byte",
                           DSTWIDTH |-> "Byte",
                           SRCMODE |-> IF receives THEN "Handshake" ELSE "Normal",
                           DSTMODE |-> IF receives THEN "Normal" ELSE "Handshake",
                           SRCADDRCTRL |-> IF receives THEN "Fixed" ELSE "Increment",
                           DSTADDRCTRL |-> IF receives THEN "Increment" ELSE "Fixed",
                           SRCREQSEL |-> c, DSTREQSEL |-> c,
                           INTABTMASK |-> "Disable", INTERRMASK |-> "Disable",
                           INTTCMASK |-> "Disable"]
                    /\ (IF receives THEN chsrc'[c] ELSE chx'[c].dstaddr)
                          = C20_Peripheral[c + 1]
                    /\ (IF receives THEN Registers'.dst[c] = Registers.dst[c]
                                    ELSE chsrc'[c] = chsrc[c])
                    /\ muxcfg'[c] = [enable |-> TRUE, source |-> C20_Source[c + 1]]
                    /\ ~Registers'.enable[c]
          /\ ch6'.transize = ch6.transize
          /\ \A c \in 0..5 : chx'[c].transize = chx[c].transize
          /\ chctrl'[7] = chctrl[7] /\ chsrc'[7] = chsrc[7] /\ chx'[7] = chx[7]
          /\ muxcfg'[7] = muxcfg[7]
          /\ dcall.n > 0 => Registers' = Registers]_vars

\* setup was called twice on registers that held the reset configuration
\* with every channel enabled: the seven channels are configured and disabled
C20_Witness ==
    /\ dcall.n = 2
    /\ BoundChannels \subseteq dcall.first_enabled
    /\ dcall.first_ctrl[1] = ResetCtrl
    /\ Enabled \cap BoundChannels = {}
    /\ chctrl[1].DSTMODE = "Handshake"
    /\ muxcfg[6] = [enable |-> TRUE, source |-> 26]

----------------------------------------------------------------------------
(* SPI clock selection: claims *)

\* the dividers tried, smallest first
C27_Ladder == <<4, 8, 16, 32, 64, 128, 256, 512>>

\* the prescaler returned for the first divider of the ladder that fits
C27_Selected(fits) ==
    IF base_clock = 0 \/ \A i \in 1..8 : ~fits[i]
    THEN NoPrescaler
    ELSE SPIPrescalers[CHOOSE i \in 1..8 : fits[i] /\ \A j \in 1..(i - 1) : ~fits[j]]

\* C27 as the specification states it: the call returns the smallest divider
\* of the ladder whose frequency, base clock / divider, does not exceed the
\* requested maximum, and none if the base clock is 0 or no divider fits.
C27_SmallestDividerNotAbove ==
    prescaler.called
        => prescaler.ret
             = C27_Selected([i \in 1..8 |->
                   base_clock <= prescaler.max_frequency * C27_Ladder[i]])

\* C27: the call returns the smallest divider of the ladder for which the
\* base clock divided by it and rounded down to a whole number does not
\* exceed the requested maximum, and none if the base clock is 0 or no
\* divider fits.
C27_SmallestDividerRoundedDown ==
    prescaler.called
        => prescaler.ret
             = C27_Selected([i \in 1..8 |->
                   base_clock < (prescaler.max_frequency + 1) * C27_Ladder[i]])

\* a base clock of 1023 with at most 2 requested: 1023 / 512 is rounded down
\* to 1, /256 gives 3
C27_Witness ==
    /\ prescaler.called
    /\ base_clock = 1023
    /\ prescaler.max_frequency = 2
    /\ prescaler.ret = "Div256"

----------------------------------------------------------------------------
(* Start of the firmware: claims *)

\* C28: App::setup terminates: it comes to its return, having initialized the
\* DMA channels, the pins, both transaction layers, the DAP engine and the USB
\* dispatcher exactly once each.
C28_SetupTerminates ==
    <>(/\ boot.pc = "returned"
       /\ \A c \in {"dma", "pins", "swd_spi", "jtag_spi", "dap", "usb"} : boot.done[c] = 1
       /\ usb_state = "Initialized")

----------------------------------------------------------------------------
(* DMA streams: claims *)

\* the channels of each peripheral's streams
C21_Own ==
    [p \in {"SPI1", "SPI2", "UART0", "UART9"} |->
        CASE p = "SPI1" -> {SPI1_RX_CH, SPI1_TX_CH}
          [] p = "SPI2" -> {SPI2_RX_CH, SPI2_TX_CH}
          [] p = "UART0" -> {UART0_RX_CH, UART0_TX_CH}
          [] p = "UART9" -> {UART9_RX_CH}]

\* the channels one of whose registers or status bits changes in the step
C21_Written ==
    {c \in Channels :
        \/ (c \in tc') # (c \in tc)
        \/ chsrc'[c] # chsrc[c]
        \/ IF c = 6 THEN ch6' # ch6 ELSE chx'[c] # chx[c]}

\* C21: no two streams share a channel, and every start, stop, busy and
\* remaining-count operation, those of both Uart instances included, reads and
\* writes only channels of the peripheral it is called for.
C21_OwnChannelOnly ==
    [][/\ Cardinality({SPI1_RX_CH, SPI1_TX_CH, SPI2_RX_CH, SPI2_TX_CH,
                        UART0_RX_CH, UART0_TX_CH, UART9_RX_CH}) = 7
       /\ dop'.n # dop.n =>
              /\ dop'.accessed \subseteq C21_Own[dop'.peripheral]
              /\ C21_Written \subseteq C21_Own[dop'.peripheral]
       /\ call'.seq # call.seq => C21_Written \subseteq C21_Own["UART9"]]_vars

\* C22: jtag_exchange returns, and has disabled both channels, only after the
\* receive channel completed: all txdata.len() bytes are stored in rxdata.
C22_ReturnsAfterReceiveCompletes ==
    jtag.pc = "returned" =>
        /\ jtag.stored = jtag.len
        /\ chx[SPI2_RX_CH].transize = 0
        /\ SPI2_RX_CH \in tc

\* C23: the DMA engine completing every transfer it can, the wait of
\* jtag_exchange ends and the call returns.
C23_WaitEnds == (jtag.pc = "wait") ~> (jtag.pc = "returned")

----------------------------------------------------------------------------
(* Transaction layer: claims *)

\* byte i (1 is the lowest) of a 32-bit word
C24_Byte(data, i) == (data \div 256^(i - 1)) % 256

C24_Words ==
    <<C24_Byte(sp.data, 1), C24_Byte(sp.data, 2), C24_Byte(sp.data, 3),
      C24_Byte(sp.data, 4), sp.parity % 2>>

\* C24: swd_wdata_phase pushes exactly five 8-bit words: the four bytes of
\* data from the lowest to the highest, then a word that is parity & 1; they
\* are shifted out in that order.
C24_WdataPushesFiveWords ==
    sp.fn = "swd_wdata_phase" =>
        /\ Len(sp.pushed) <= 5
        /\ sp.pushed = SubSeq(C24_Words, 1, Len(sp.pushed))
        /\ sp.pushed # << >> => spi.datalen = 8 - 1
        /\ sp.sent = SubSeq(sp.pushed, 1, Len(sp.sent))
        /\ sp.returned => sp.pushed = C24_Words /\ sp.pushed[5] \in {0, 1}

C24_Witness ==
    /\ sp.fn = "swd_wdata_phase"
    /\ sp.returned
    /\ sp.data = 305419896
    /\ sp.parity = 1
    /\ sp.pushed = <<120, 86, 52, 18, 1>>
    /\ sp.sent = <<120, 86, 52, 18, 1>>

\* C25: swd_rdata_phase returns the 32 bits received: the first, second,
\* third and fourth word received in this phase in bits 0-7, 8-15, 16-23 and
\* 24-31.
C25_RdataReturnsReceived ==
    (sp.fn = "swd_rdata_phase" /\ sp.returned /\ sp.clean) =>
        /\ Len(sp.reads) = 4
        /\ \A i \in 1..4 : sp.reads[i].call = sp.n /\ sp.reads[i].k = i
        /\ sp.ret = sp.reads[1].word + sp.reads[2].word * 256
                     + sp.reads[3].word * 65536 + sp.reads[4].word * 16777216

\* the steps of the RDATA phase in the order of the claim
C26_Events ==
    <<[op |-> "start_transfer", a |-> 7],
      [op |-> "write_dr", a |-> 255], [op |-> "write_dr", a |-> 255],
      [op |-> "write_dr", a |-> 255], [op |-> "write_dr", a |-> 255],
      [op |-> "read_dr", a |-> 0], [op |-> "read_dr", a |-> 8],
      [op |-> "read_dr", a |-> 16],
      [op |-> "wait_rxne", a |-> 0],
      [op |-> "swd_clk_direct", a |-> 0],
      [op |-> "set_low", a |-> 0], [op |-> "delay_ticks", a |-> 5],
      [op |-> "set_high", a |-> 0], [op |-> "delay_ticks", a |-> 5],
      [op |-> "set_low", a |-> 0], [op |-> "delay_ticks", a |-> 5],
      [op |-> "set_high", a |-> 0], [op |-> "delay_ticks", a |-> 5],
      [op |-> "swd_clk_spi", a |-> 0],
      [op |-> "read_dr", a |-> 24]>>

C29_ExchangeConsumesItsWord ==
    (sp.fn \in FixedWidth /\ sp.returned /\ sp.fixed_only) =>
        /\ spi.tx = << >>
        /\ spi.rx = << >>
        /\ sp.fn \in {"rx4", "rx5"} =>
              /\ Len(sp.reads) = 1
              /\ sp.reads[1].call = sp.n
              /\ sp.ret = sp.reads[1].word

\* C30: when swd_wdata_phase returns, each of its five reads has taken one of
\* the five words received in this phase, and none of them is in a FIFO or
\* still to come.
C30_WdataDrained ==
    (sp.fn = "swd_wdata_phase" /\ sp.returned /\ sp.clean) =>
        /\ \A i \in 1..Len(spi.rx) : spi.rx[i].call # sp.n
        /\ \A i \in 1..Len(spi.tx) : spi.tx[i].call # sp.n
        /\ Len(sp.reads) = 5
        /\ \A i \in 1..5 : sp.reads[i].call = sp.n

----------------------------------------------------------------------------
(* The RDATA phase: the parity bit and the early reads *)

\* the number of bits set in x
RECURSIVE BitsSet(_)
BitsSet(x) == IF x = 0 THEN 0 ELSE (x % 2) + BitsSet(x \div 2)

\* the parity bit a target drives after 32 bits of data: 1 when the number
\* of bits set in the data is odd
TargetParity(data) == BitsSet(data) % 2

\* each read of the phase took the word received for the word of the same rank
RdataInStep ==
    /\ Len(sp.reads) = 4
    /\ \A i \in 1..4 : sp.reads[i].call = sp.n /\ sp.reads[i].k = i

\* C31: the second component of the result of swd_rdata_phase is the parity
\* bit the target drives after the 32 data bits it sent: when the phase
\* returns the data the target sent, it returns their parity bit with them.
C31_RdataReturnsParity ==
    (sp.fn = "swd_rdata_phase" /\ sp.returned /\ sp.clean /\ RdataInStep) =>
        sp.ret_parity = TargetParity(sp.ret)

\* C32: each of the first three reads of swd_rdata_phase finds in the
\* receive FIFO the word received for the word of its rank: the FIFO is not
\* empty at the read.
C32_EarlyReadsFindTheirWord ==
    (sp.fn = "swd_rdata_phase" /\ sp.clean) =>
        \A i \in 1..Min(3, Len(sp.reads)) :
            /\ sp.reads[i].call # 0
            /\ sp.reads[i].call = sp.n /\ sp.reads[i].k = i

----------------------------------------------------------------------------
(* The clock of the transaction layer *)

\* the instance of the last call, its base clock and its divider
ClockedInstance == clocking.call.instance
ClockedBase == clocking.base_clock[ClockedInstance]
ClockedDivider == clocking.regs[ClockedInstance].sclk_div

\* C33: setup_swd and setup_jtag compute the default divider without
\* underflow for every base clock, and the shift clock
\* base_clock / (2 * (SCLK_DIV + 1)) is not above 1.5 MHz.
C33_DefaultDividerWithinLimit ==
    clocking.call.op \in {"setup_swd", "setup_jtag"} =>
        /\ ~clocking.call.underflow
        /\ ~clocking.panicked
        /\ ClockedBase <= 1500000 * (2 * (ClockedDivider + 1))

\* C34: after set_base_clock, Spi<1> holds the frequency of the clock domain
\* of SPI1 and Spi<2> that of SPI2.
C34_BaseClockOfOwnDomain ==
    clocking.call.op = "set_base_clock" =>
        ClockedBase = (IF ClockedInstance = 1 THEN clocking.clocks.spi1
                       ELSE clocking.clocks.spi2)

\* the divisor of the base clock a prescaler names: /4, /8, ... /512
LadderDivisor(p) == 4 * 2^prescaler_as_u32(p)

\* C35: after set_prescaler(p) the clock divider of the peripheral
\* corresponds to p, as the value of p or as its divisor of the base clock,
\* until the next set_prescaler or setup.
C35_PrescalerApplied ==
    clocking.call.op = "set_prescaler" =>
        \/ ClockedDivider = prescaler_as_u32(clocking.call.prescaler)
        \/ 2 * (ClockedDivider + 1) = LadderDivisor(clocking.call.prescaler)

----------------------------------------------------------------------------
(* The start operations of the DMA *)

\* the channels of a start operation
C36_Own(op) ==
    CASE op = "spi1_enable" -> {SPI1_RX_CH, SPI1_TX_CH}
      [] op = "spi2_enable" -> {SPI2_RX_CH, SPI2_TX_CH}
      [] op = "uart9_start" -> {UART9_RX_CH}
      [] op = "uart0_start_rx" -> {UART0_RX_CH}
      [] op = "uart0_start_tx_transfer" -> {UART0_TX_CH}
      [] OTHER -> {}

\* the status, addresses, length and enable bit of channel c in registers d
\* with the abort and error status given
C36_Channel(d, abort, error, c) ==
    [enable |-> IF c = 6 THEN d.c6.enable ELSE d.x[c].enable,
     transize |-> IF c = 6 THEN d.c6.transize ELSE d.x[c].transize,
     dstaddr |-> IF c = 6 THEN Memory(d.c6.dstaddr) ELSE d.x[c].dstaddr,
     srcaddr |-> d.src[c],
     tc |-> c \in d.tc, abort |-> c \in abort, error |-> c \in error]

C36_Now(c) == C36_Channel(Stream, dstart.abort, dstart.error, c)
C36_Before(c) ==
    C36_Channel(dstart.before, dstart.before.abort, dstart.before.error, c)

\* C36: a start operation first clears the transfer-complete, abort and error
\* status of its own channels and of no other, then writes the address and
\* the length of each of them, and sets the enable bits after every other
\* write; status, addresses, length and enable bit of every other channel stay
\* as the operation found them. On return each own channel is enabled with
\* its status clear and the length asked for.
C36_StartClearsArmsEnables ==
    dstart.call.op # "none" =>
        LET ws == dstart.call.writes
            own == C36_Own(dstart.call.op)
        IN  /\ \A i \in 1..Len(ws) :
                  /\ ws[i].ch \subseteq own
                  /\ ws[i].reg = "INTSTATUS" <=> i = 1
                  /\ ws[i].reg = "ENABLE" =>
                        /\ \A j \in (i + 1)..Len(ws) : ws[j].reg = "ENABLE"
                        /\ \E j \in 1..(i - 1) :
                              ws[j].reg = "TRANSIZE" /\ ws[j].ch = ws[i].ch
                        /\ \E j \in 1..(i - 1) :
                              ws[j].reg \in {"DSTADDR", "SRCADDR"} /\ ws[j].ch = ws[i].ch
            /\ Len(ws) >= 1 => ws[1].ch = own
            /\ \A c \in Channels \ own : C36_Now(c) = C36_Before(c)
            /\ dstart.call.pc = 0 =>
                  \A c \in own :
                      /\ C36_Now(c).enable
                      /\ C36_Now(c).transize = dstart.call.len
                      /\ ~C36_Now(c).tc /\ ~C36_Now(c).abort /\ ~C36_Now(c).error
                      /\ \E i \in 1..Len(ws) : ws[i].reg = "ENABLE" /\ ws[i].ch = {c}

\* spi1_enable has returned, called after another start operation with every
\* status bit pending: the status of its two channels is clear, that of the
\* others is still pending
C36_Witness ==
    /\ dstart.call.op = "spi1_enable"
    /\ dstart.call.pc = 0
    /\ dstart.call.n = 2
    /\ Len(dstart.call.writes) = 7
    /\ dstart.before.abort = BoundChannels \ {UART0_TX_CH}
    /\ dstart.abort = BoundChannels \ {UART0_TX_CH, SPI1_RX_CH, SPI1_TX_CH}
    /\ tc = BoundChannels \ {UART0_TX_CH, SPI1_RX_CH, SPI1_TX_CH}
    /\ chx[UART0_TX_CH].enable
    /\ chx[SPI1_RX_CH].enable /\ chx[SPI1_TX_CH].enable

----------------------------------------------------------------------------
(* The dispatcher when the bus becomes Configured *)

\* C37: a call of the dispatcher configures the endpoints exactly when its
\* poll reports an event and the device is Configured while the state
\* recorded before was another one; that call returns no Suspend, records
\* Configured, and reads the command endpoint: a pending packet is taken, and
\* returned as a debug command when it is not empty. A call that finds the
\* recorded state does not configure, so the call after a configuring one
\* does not configure again while the bus stays Configured.
C37_ConfiguresOnceAndDrains ==
    [][IsInterrupt =>
          /\ icall'.configure <=>
                 (icall'.ev /\ device_state # dev_state' /\ dev_state' = "Configured")
          /\ icall'.configure =>
                 /\ usb_ret' # Suspend
                 /\ device_state' = "Configured"
                 /\ icall'.read_cmd
                 /\ read_ep # << >> => read_ep' = Tail(read_ep)
                 /\ (read_ep # << >> /\ Head(read_ep) # << >>) =>
                        usb_ret' = DAP2Command(Head(read_ep))
          /\ device_state = dev_state' => ~icall'.configure
          /\ (Interrupted /\ icall.configure /\ dev_state' = dev_state) =>
                 ~icall'.configure]_vars

\* the call found the bus Configured for the first time with a command
\* packet pending: it configured the endpoints and returned the command
C37_Witness ==
    /\ Interrupted
    /\ icall.configure
    /\ icall.old_state # "Configured"
    /\ icall.pending # << >>
    /\ usb_ret = DAP2Command(Head(icall.pending))
    /\ read_ep = << >>
    /\ device_state = "Configured"

----------------------------------------------------------------------------
(* Every command packet reaches the engine *)

\* a packet is pending in the command endpoint; a packet that is not empty
PendingPacket == read_ep # << >>
PendingCommand == read_ep # << >> /\ Head(read_ep) # << >>

\* the last iteration gave the packet at the head of the endpoint to the
\* engine, and no packet has arrived since
JustDispatched ==
    /\ pcall.op = "poll"
    /\ pcall.pending # << >>
    /\ Len(pcall.engine) = 1
    /\ pcall.engine[1].data = Head(pcall.pending)
    /\ read_ep = Tail(pcall.pending)

\* an iteration takes at most the packet at the head of the endpoint, and
\* calls the engine only with the packet it took, once
TakesHeadOnly ==
    [][IsPoll =>
          /\ read_ep' # read_ep => (read_ep # << >> /\ read_ep' = Tail(read_ep))
          /\ read_ep' = read_ep => pcall'.engine = << >>
          /\ Len(pcall'.engine) <= 1
          /\ pcall'.engine # << >> =>
                 /\ pcall'.engine[1].version = "V2"
                 /\ pcall'.engine[1].data = Head(read_ep)]_vars

----------------------------------------------------------------------------
(* The bounds of Uart::read *)

\* C39: from every cursor in 0..C, every DMA remaining count in 0..C and
\* every destination length, last_idx stays within 0..C, no subtraction of
\* read or bytes_available goes below 0, and both copies of read stay inside
\* the ring buffer and inside the destination: buffer[last_idx..last_idx + n1]
\* and buffer[..n2] end at C at most, rx[..n1] and rx[n1..n1 + n2] end at
\* rx.len() at most.
C39_ReadStaysInBounds ==
    /\ last_idx \in 0..buffer_len
    /\ call.op = "bytes_available" => ret \in 0..buffer_len
    /\ call.op = "read" =>
          /\ plan.dma_idx \in 0..buffer_len
          /\ plan.n1 >= 0
          /\ plan.n2 >= 0
          /\ call.last_idx + plan.n1 <= buffer_len
          /\ plan.n2 <= buffer_len
          /\ plan.n1 + plan.n2 <= call.rxlen
          /\ plan.n1 + plan.n2 <= Len(rx)
          /\ plan.new_last_idx \in 0..buffer_len
          /\ pc = "idle" => (ret = plan.n1 + plan.n2 /\ last_idx = plan.new_last_idx)

\* a read of 6 bytes up to the end of the buffer: the cursor is left at C
C39_Witness ==
    /\ ReadDone
    /\ buffer_len = 256
    /\ call.last_idx = 250
    /\ call.ndtr = 0
    /\ call.rxlen = 10
    /\ plan.n1 = 6
    /\ ret = 6
    /\ last_idx = 256

----------------------------------------------------------------------------
(* The log sink *)

\* C40: the log sink never starts a transfer on its channel while the
\* transfer before still has bytes remaining: every byte of every transfer
\* armed by send_bytes was read by the DMA engine before the channel was
\* armed again.
C40_NoTransferCutShort == logtx.cut = 0

====
